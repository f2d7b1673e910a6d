---------------------------- MODULE VirtualDisk -----------------------------
(***************************************************************************)
(* Lab 10 ("10 Lab"): a disk in shared memory, which outlives the programs *)
(* that use it, and its shell, foosh.  A bitmap and a count of the free    *)
(* blocks, a table of links (FAT), and blocks that hold the data of files  *)
(* or the entries of directories.  There is no deletion.                   *)
(*                                                                         *)
(* A step is one write to the disk that is visible there: a bit, the       *)
(* count, a link, an entry, the size of a directory.  Between two of them  *)
(* the shell may be killed; the next one starts on what it left.  Sizes of *)
(* files are in blocks.  The data of a file do not look like a directory.  *)
(* What the disk holds after a write to a place that is not a directory's  *)
(* or a file's own block is not modelled: the shell is then "wild" if the  *)
(* parent of a new entry was not tested, and "overrun" if write_to_disk    *)
(* went on without a block, and it does nothing more.                      *)
(***************************************************************************)
EXTENDS Integers, Sequences, FiniteSetsExt

CONSTANTS Blocks,            \* those free on a new disk
          ROOT_BLOCK,
          NIL, NOWHERE,      \* block numbers 0: no block, and -1: no such path
          EntriesPerBlock,
          Names,             \* of files and directories
          HdFiles,           \* the contents of files that can be copied in
          Paths,             \* as [absolute |-> BOOLEAN, names |-> a sequence]
          MaxEntries,        \* bounds of the model: entries on the disk,
          MaxCrashes         \* and times the shell is killed

E == EntriesPerBlock

ASSUME DiskAssumption ==
  /\ IsFiniteSet(Blocks) /\ ROOT_BLOCK \notin Blocks
  /\ {NIL, NOWHERE} \cap (Blocks \cup {ROOT_BLOCK}) = {} /\ NIL # NOWHERE
  /\ E \in Nat /\ E > 2 /\ {MaxCrashes, MaxEntries} \subseteq Nat
  /\ HdFiles \subseteq Seq(STRING)
  /\ Paths \subseteq [absolute : BOOLEAN, names : Seq(STRING)]
  /\ {".", ".."} \cap Names = {}

VARIABLES used,              \* bitmap, without the reserved blocks
          NFREEBLOCKS,
          next,              \* FAT
          slots, data,       \* a block, as entries and as data of a file
          CBN,               \* the shell's current directory
          pc, job,           \* the shell's place in a command, and its variables
          crashes, spoiled   \* crashes so far; has a command failed half way

disk  == <<used, NFREEBLOCKS, next, slots, data>>
shell == <<CBN, pc, job>>
vars  == <<disk, shell, crashes, spoiled>>

All       == Blocks \cup {ROOT_BLOCK}
Empty     == ""              \* what cleared memory reads as
NoEntry   == [type |-> Empty, name |-> Empty, size |-> 0, first |-> NIL]
Blank     == [j \in 0 .. E - 1 |-> NoEntry]
dot(b)    == [type |-> "d", name |-> ".", size |-> 2, first |-> b]
dotdot(b) == [type |-> "d", name |-> "..", size |-> 0, first |-> b]
Directory(b, parent) == [Blank EXCEPT ![0] = dot(b), ![1] = dotdot(parent)]

(* known, of which the code has nothing: was the parent a directory when   *)
(* the command began.                                                      *)
NoJob == [kind |-> Empty, parent |-> NIL, name |-> Empty, size |-> 0, first |-> NIL,
          cur |-> NIL, new |-> NIL, src |-> NIL, rest |-> <<>>, after |-> Empty, want |-> <<>>,
          known |-> FALSE]

Init == /\ used = {} /\ NFREEBLOCKS = Cardinality(Blocks)
        /\ next = [b \in All |-> NIL]
        /\ slots = [b \in All |-> IF b = ROOT_BLOCK THEN Directory(b, b) ELSE Blank]
        /\ data = [b \in All |-> Empty]
        /\ CBN = ROOT_BLOCK
        /\ pc = "idle" /\ job = NoJob
        /\ crashes = 0 /\ spoiled = FALSE
-----------------------------------------------------------------------------
(* Reading the disk.                                                       *)
isallocated(b) == b \in used \cup {ROOT_BLOCK}

(* The n-th block of the chain that starts at b.                           *)
Follow(b, n) ==
  LET f[k \in 0 .. n] == IF k = 0 THEN b ELSE IF f[k-1] = NIL THEN NIL ELSE next[f[k-1]]
  IN  f[n]

Size(d)     == slots[d][0].size
Entry(d, k) == LET b == Follow(d, k \div E) IN IF b = NIL THEN NoEntry ELSE slots[b][k % E]

listdirectory(d) == [k \in 1 .. Size(d) - 2 |-> Entry(d, k + 1)]

IsDirectory(b) == isallocated(b) /\ slots[b][0].type = "d"

Places(d, name) == IF IsDirectory(d) THEN {k \in 0 .. Size(d) - 1 : Entry(d, k).name = name}
                                     ELSE {}

(* The first entry of that name.                                           *)
find_entry(d, name) ==
  LET S == Places(d, name) IN Entry(d, CHOOSE k \in S : \A l \in S : k <= l)

printfile(first, size) == [k \in 1 .. size |-> data[Follow(first, k - 1)]]

Descend(b, name) == IF name = "." THEN b
                    ELSE IF Places(b, name) = {} THEN NOWHERE
                    ELSE find_entry(b, name).first

resolve_path(path) ==
  LET b[k \in 0 .. Len(path.names)] ==
        IF k = 0 THEN IF path.absolute THEN ROOT_BLOCK ELSE CBN
        ELSE Descend(b[k-1], path.names[k])
  IN  b[Len(path.names)]
-----------------------------------------------------------------------------
(* getfreeblock: the bit, then the count.  With a count above zero and no  *)
(* bit left it searches for ever.                                          *)
Takes == {"md", "first", "more", "extend"}

AfterCount == [md |-> "format", first |-> "fill", more |-> "chain", extend |-> "link"]

(* Mutants, here and below: a plausible bug in the definition that follows. *)
TakeAny(b) ==                                              \* bit not tested
  /\ pc \in Takes /\ NFREEBLOCKS > 0
  /\ used' = used \cup {b}
  /\ job' = [job EXCEPT !.new = b, !.after = AfterCount[pc]]
  /\ pc' = "count"
  /\ UNCHANGED <<NFREEBLOCKS, next, slots, data, CBN, crashes, spoiled>>

Take(b) == /\ pc \in Takes /\ NFREEBLOCKS > 0
           /\ b \notin used /\ used' = used \cup {b}
           /\ job' = [job EXCEPT !.new = b, !.after = AfterCount[pc]]
           /\ pc' = "count"
           /\ UNCHANGED <<NFREEBLOCKS, next, slots, data, CBN, crashes, spoiled>>

(* The first block of a directory or of a file is remembered as such.      *)
Count == /\ pc = "count"
         /\ NFREEBLOCKS' = NFREEBLOCKS - 1
         /\ pc' = job.after
         /\ job' = IF job.after \in {"format", "fill"}
                   THEN [job EXCEPT !.first = job.new, !.cur = job.new] ELSE job
         /\ UNCHANGED <<used, next, slots, data, CBN, crashes, spoiled>>

(* No free block.  write_to_disk has counted before and does not look.     *)
AfterFail == CASE pc = "extend" -> IF job.kind = "d" THEN "free" ELSE "idle"
               [] pc = "more"   -> IF job.src = NIL THEN "overrun" ELSE "idle"
               [] OTHER         -> "idle"

TakeFails == /\ pc \in Takes /\ NFREEBLOCKS = 0
             /\ pc' = AfterFail
             /\ spoiled' = (spoiled \/ (job.kind = "f" /\ job.first # NIL))
             /\ job' = IF pc' = "idle" THEN NoJob ELSE job
             /\ UNCHANGED <<disk, CBN, crashes>>

(* freeblock, of the new directory whose parent cannot be extended.        *)
FreeBit == /\ pc = "free" /\ pc' = "uncount"
           /\ used' = used \ {job.first}
           /\ slots' = [slots EXCEPT ![job.first] = Blank]
           /\ data' = [data EXCEPT ![job.first] = Empty]
           /\ UNCHANGED <<NFREEBLOCKS, next, CBN, job, crashes, spoiled>>

FreeUncounted == /\ pc = "uncount" /\ pc' = "idle"           \* count not written
                 /\ job' = NoJob
                 /\ UNCHANGED <<disk, CBN, crashes, spoiled>>

FreeCount == /\ pc = "uncount" /\ pc' = "idle"
             /\ NFREEBLOCKS' = NFREEBLOCKS + 1
             /\ job' = NoJob
             /\ UNCHANGED <<used, next, slots, data, CBN, crashes, spoiled>>
-----------------------------------------------------------------------------
(* createdirectory and add_file_entry: the entry goes behind the last one, *)
(* in a new block if the last one is full, and counts once the size says.  *)
Format == /\ pc = "format" /\ pc' = "enter"
          /\ slots' = [slots EXCEPT ![job.first] = Directory(job.first, job.parent)]
          /\ UNCHANGED <<used, NFREEBLOCKS, next, data, CBN, job, crashes, spoiled>>

new_entry == [type |-> job.kind, name |-> job.name, size |-> job.size, first |-> job.first]

LastBlockOneOver(d) == Follow(d, Size(d) \div E)           \* size, not size - 1

LastBlock(d) == Follow(d, (Size(d) - 1) \div E)

Enter == /\ pc = "enter" /\ IsDirectory(job.parent)
         /\ IF Size(job.parent) % E # 0
            THEN /\ pc' = "grow"
                 /\ slots' = [slots EXCEPT
                               ![LastBlock(job.parent)][Size(job.parent) % E] = new_entry]
            ELSE pc' = "extend" /\ UNCHANGED slots
         /\ UNCHANGED <<used, NFREEBLOCKS, next, data, CBN, job, crashes, spoiled>>

(* add_file_entry looks whether the parent is one, createdirectory not;    *)
(* and block -1 is not a block at all.                                     *)
NoParent == /\ pc = "enter" /\ ~IsDirectory(job.parent)
            /\ pc' = IF job.kind = "d" \/ job.parent = NOWHERE THEN "wild" ELSE "idle"
            /\ job' = IF pc' = "idle" THEN NoJob ELSE job
            /\ spoiled' = (spoiled \/ job.first # NIL)
            /\ UNCHANGED <<disk, CBN, crashes>>

LinkFirst == /\ pc = "link" /\ pc' = "enternew"            \* at the head
             /\ next' = [next EXCEPT ![job.parent] = job.new]
             /\ UNCHANGED <<used, NFREEBLOCKS, slots, data, CBN, job, crashes, spoiled>>

Link == /\ pc = "link" /\ pc' = "enternew"
        /\ next' = [next EXCEPT ![LastBlock(job.parent)] = job.new]
        /\ UNCHANGED <<used, NFREEBLOCKS, slots, data, CBN, job, crashes, spoiled>>

EnterNew == /\ pc = "enternew" /\ pc' = "grow"
            /\ slots' = [slots EXCEPT ![job.new] = [Blank EXCEPT ![0] = new_entry]]
            /\ UNCHANGED <<used, NFREEBLOCKS, next, data, CBN, job, crashes, spoiled>>

Grow == /\ pc = "grow" /\ pc' = "idle"
        /\ slots' = [slots EXCEPT ![job.parent][0].size = @ + 1]
        /\ job' = NoJob
        /\ UNCHANGED <<used, NFREEBLOCKS, next, data, CBN, crashes, spoiled>>
-----------------------------------------------------------------------------
(* write_to_disk, of job.rest, and copyfile, of the chain at job.src.      *)
WriteBlock == /\ pc = "fill" /\ job.src = NIL
              /\ data' = [data EXCEPT ![job.cur] = Head(job.rest)]
              /\ job' = [job EXCEPT !.rest = Tail(@)]
              /\ IF Len(job.rest) > 1
                 THEN pc' = "more" /\ UNCHANGED next
                 ELSE pc' = "enter" /\ next' = [next EXCEPT ![job.cur] = NIL]
              /\ UNCHANGED <<used, NFREEBLOCKS, slots, CBN, crashes, spoiled>>

CopyBlock == /\ pc = "fill" /\ job.src # NIL
             /\ data' = [data EXCEPT ![job.cur] = data[job.src]]
             /\ IF next[job.src] # NIL
                THEN pc' = "more" /\ UNCHANGED <<next, job>>
                ELSE /\ pc' = "enter" /\ next' = [next EXCEPT ![job.cur] = NIL]
                     /\ UNCHANGED job
             /\ UNCHANGED <<used, NFREEBLOCKS, slots, CBN, crashes, spoiled>>

Chain == /\ pc = "chain" /\ pc' = "fill"
         /\ next' = [next EXCEPT ![job.cur] = job.new]
         /\ job' = [job EXCEPT !.cur = job.new,
                               !.src = IF @ = NIL THEN NIL ELSE next[@]]
         /\ UNCHANGED <<used, NFREEBLOCKS, slots, data, CBN, crashes, spoiled>>
-----------------------------------------------------------------------------
(* The shell.  A command that is refused changes nothing and is left out.  *)
Directories == {d \in used \cup {ROOT_BLOCK} : slots[d][0].name = "."}

Total == FoldSet(LAMBDA d, n : n + Size(d) - 2, 0, Directories)

Ready == pc = "idle" /\ Total < MaxEntries

cmd_md(path, name) ==
  LET parent == resolve_path(path)
  IN  /\ Ready /\ parent # NOWHERE /\ Places(parent, name) = {}
      /\ pc' = "md"
      /\ job' = [NoJob EXCEPT !.kind = "d", !.parent = parent, !.name = name, !.size = 2,
                             !.known = IsDirectory(parent)]
      /\ UNCHANGED <<disk, CBN, crashes, spoiled>>

cmd_cd(path) ==
  /\ pc = "idle" /\ IsDirectory(resolve_path(path))
  /\ CBN' = resolve_path(path)
  /\ UNCHANGED <<disk, pc, job, crashes, spoiled>>

(* The copy of cp: a directory of that name receives it under the name of  *)
(* the source.  There is no test whether the name is taken.                *)
Copy(parent, name, source, size) ==
  LET inside == Places(parent, name) # {} /\ find_entry(parent, name).type = "d"
      target == IF inside THEN find_entry(parent, name).first ELSE parent
  IN  [NoJob EXCEPT !.kind = "f", !.size = size,
                    !.parent = target, !.known = IsDirectory(target),
                    !.name = IF inside THEN source ELSE name]

(* From the hard disk, where the file has the name source.                 *)
CopyInUnchecked(content, source, path, name) ==            \* no test of the space
  LET parent == resolve_path(path)
  IN  /\ Ready /\ parent # NOWHERE
      /\ pc' = IF content = <<>> THEN "enter" ELSE "first"
      /\ job' = [Copy(parent, name, source, Len(content))
                   EXCEPT !.rest = content, !.want = content]
      /\ UNCHANGED <<disk, CBN, crashes, spoiled>>

CopyIn(content, source, path, name) ==
  LET parent == resolve_path(path)
  IN  /\ Ready /\ parent # NOWHERE
      /\ NFREEBLOCKS >= Len(content)
      /\ pc' = IF content = <<>> THEN "enter" ELSE "first"
      /\ job' = [Copy(parent, name, source, Len(content))
                   EXCEPT !.rest = content, !.want = content]
      /\ UNCHANGED <<disk, CBN, crashes, spoiled>>

(* Inside the virtual disk.  Whether the destination exists is not tested. *)
CopyWithin(from, source, path, name) ==
  LET parent == resolve_path(path)
      folder == resolve_path(from)
      meta   == find_entry(folder, source)
  IN  /\ Ready /\ Places(folder, source) # {} /\ meta.type = "f"
      /\ pc' = IF meta.first = NIL THEN "enter" ELSE "first"
      /\ job' = [Copy(parent, name, source, meta.size)
                   EXCEPT !.src = meta.first, !.want = printfile(meta.first, meta.size)]
      /\ UNCHANGED <<disk, CBN, crashes, spoiled>>

(* The shell is killed, and a new one joins the disk.                      *)
Crash == /\ crashes < MaxCrashes /\ pc \notin {"idle", "wild", "overrun"}
         /\ crashes' = crashes + 1 /\ spoiled' = TRUE
         /\ pc' = "idle" /\ job' = NoJob /\ CBN' = ROOT_BLOCK
         /\ UNCHANGED disk

Allocate == \/ \E b \in Blocks : Take(b)
            \/ Count \/ TakeFails \/ FreeBit \/ FreeCount

Work == Format \/ Enter \/ NoParent \/ Link \/ EnterNew \/ Grow \/ WriteBlock \/ CopyBlock \/ Chain

Command ==
  \E path \in Paths :
     \/ cmd_cd(path)
     \/ \E name \in Names :
          \/ cmd_md(path, name)
          \/ \E source \in Names :
               \/ \E from \in Paths : CopyWithin(from, source, path, name)
               \/ \E content \in HdFiles : CopyIn(content, source, path, name)

Next == Command \/ Allocate \/ Work \/ Crash

Spec == Init /\ [][Next]_vars
-----------------------------------------------------------------------------
(* The disk and the shell's variables have the shapes the code gives them: *)
(* the count stays within the disk, a directory has its two first entries. *)
TypeOK ==
  /\ used \subseteq Blocks /\ NFREEBLOCKS \in 0 .. Cardinality(Blocks)
  /\ next \in [All -> Blocks \cup {NIL}]
  /\ slots \in [All -> [0 .. E - 1 -> [type : {Empty, "d", "f"}, name : Names \cup {Empty, ".", ".."},
                                      size : Nat, first : All \cup {NIL}]]]
  /\ \A d \in Directories : slots[d][0].first = d /\ slots[d][1].name = ".." /\ Size(d) >= 2
  /\ CBN \in Directories
  /\ pc \in Takes \cup {"idle", "count", "free", "uncount", "format", "enter", "link",
                         "enternew", "grow", "fill", "chain", "wild", "overrun"}

(* A block belongs to one owner: at most one link or one entry leads to    *)
(* it, the bitmap has it as taken, and a directory's chain is as long as   *)
(* its size says.  A free block has no link and no entries of a former     *)
(* life, which createdirectory and add_file_entry rely on.  All this also  *)
(* after the shell was killed half way (getfreeblock, the links of         *)
(* add_file_entry, write_to_disk and copyfile, freeblock).                 *)
Listed == UNION {{<<d, k>> : k \in 2 .. Size(d) - 1} : d \in Directories}

Meta(l) == Entry(l[1], l[2])

FirstOf(l) == Meta(l).first

Linked == {next[b] : b \in used \cup {ROOT_BLOCK}} \ {NIL}

OneOwner ==
  /\ \A b, c \in used \cup {ROOT_BLOCK} : next[b] = next[c] /\ next[b] # NIL => b = c
  /\ \A l, m \in Listed : FirstOf(l) = FirstOf(m) /\ FirstOf(l) # NIL => l = m
  /\ \A l \in Listed : FirstOf(l) \in (used \ Linked) \cup {NIL}
  /\ Linked \subseteq used
  /\ \A d \in Directories : LastBlock(d) # NIL
  /\ \A b \in Blocks \ used : next[b] = NIL /\ slots[b] = Blank

Free == Cardinality(Blocks \ used)

CountDue == CASE pc = "count"   -> NFREEBLOCKS - 1
              [] pc = "uncount" -> NFREEBLOCKS + 1
              [] OTHER          -> NFREEBLOCKS

(* The count of free blocks is right whenever the shell is not between the *)
(* two writes of getfreeblock or freeblock, and is off by at most one for  *)
(* each time it was killed there: so without that getfreeblock never       *)
(* searches a full bitmap for ever.                                        *)
CountExact == Free - CountDue <= crashes /\ CountDue - Free <= crashes

(* Commands that complete, and md also when it fails, leave no block taken *)
(* that nothing leads to (the freeblock of createdirectory).               *)
NothingLeaked ==
  pc = "idle" /\ ~spoiled => used = Linked \cup ({FirstOf(l) : l \in Listed} \ {NIL})

(* A command whose parent is a directory when it begins writes only to     *)
(* blocks of its own: the space write_to_disk has counted lasts until its  *)
(* last block, so it never goes on with -1 for a block, and the parent is  *)
(* still a directory when createdirectory writes the entry, many steps     *)
(* later, without a look.  The code also takes md below a file, and cp to  *)
(* a path that does not exist: they end "wild", as createdirectory has no  *)
(* test like add_file_entry's (diskutils.c:297), and cmd_cp passes on -1.  *)
(* The other properties of the disk claim nothing from there on.           *)
StaysOnDisk == pc # "overrun" /\ (pc = "wild" => ~job.known)

(* The disk is a tree of directories in which a command takes effect at    *)
(* once, when the size of the parent is written, or not at all, and a file *)
(* holds what was copied, whatever the order of the writes, lack of space  *)
(* and kills of the shell.                                                 *)
Entered == {ROOT_BLOCK} \cup {FirstOf(l) : l \in {m \in Listed : Meta(m).type = "d"}}

Shown(e) == [name |-> e.name,
             is |-> IF e.type = "d" THEN e.first ELSE printfile(e.first, e.size)]

Tree == INSTANCE FileTree WITH
          Root <- ROOT_BLOCK, NONE <- NIL,
          dirs <- [d \in Entered |->
                     [k \in 1 .. Size(d) - 2 |-> Shown(listdirectory(d)[k])]],
          request <- IF pc = "idle" \/ job.parent \notin Entered THEN NIL
                     ELSE [kind |-> job.kind, parent |-> job.parent, name |-> job.name,
                           content |-> job.want]

Refines == Tree!Safety
=============================================================================
