---------------------------- MODULE MCImageTools ----------------------------
(***************************************************************************)
(* Directories of up to MaxFiles files, drawn from device trees of         *)
(* different sizes, two of them for the same chip and revisions, a file    *)
(* that is skipped and one that cannot be read; arguments with every       *)
(* combination of sizes, of addresses, and a few to go with a directory.   *)
(***************************************************************************)
EXTENDS ImageTools, SequencesExt

CONSTANT MaxFiles

Dtb(size, chip, rev, end) ==
  [kind |-> "dtb", size |-> size, chip |-> chip, hw_rev |-> rev, hw_rev_end |-> end]

MCFiles ==
  { Dtb(1, 2, 0, 3), Dtb(256, 1, 4, 9), Dtb(257, 1, 0, 3), Dtb(600, 1, 4, 9),
    [Dtb(1, 0, 0, 0) EXCEPT !.kind = "other"],
    [Dtb(1, 0, 0, 0) EXCEPT !.kind = "unreadable"] }

MCListings == UNION {SetToSeqs(S) : S \in {T \in SUBSET MCFiles : Cardinality(T) <= MaxFiles}}

CONSTANTS MCPageSizes, MCSizes

MCArgument(pagesize, kernel, ramdisk, second, dt, signature) ==
  [page_size |-> pagesize, kernel |-> kernel, ramdisk |-> ramdisk, second |-> second,
   dt |-> dt, signature |-> signature, base |-> 0, kernel_offset |-> KernelOffset,
   ramdisk_offset |-> 0, second_offset |-> 0, tags_offset |-> 0]

MCArguments ==
  { MCArgument(pagesize, kernel, ramdisk, second, dt, signature) :
      pagesize \in MCPageSizes, kernel \in MCSizes, ramdisk \in MCSizes \cup {0},
      second \in MCSizes \cup {Absent}, dt \in MCSizes \cup {Absent},
      signature \in {SigSize, Absent} }
  \cup
  { [MCArgument(256, 1, 0, Absent, Absent, Absent) EXCEPT
       !.base = base, !.kernel_offset = kernel, !.ramdisk_offset = ramdisk,
       !.second_offset = second, !.tags_offset = tags] :
      base \in {0, 15}, kernel, ramdisk, second, tags \in {2, 14} }

MCDirArguments ==
  { MCArgument(256, 1, ramdisk, second, Absent, Absent) :
      ramdisk \in {256, 257}, second \in {Absent, 512} }
=============================================================================
