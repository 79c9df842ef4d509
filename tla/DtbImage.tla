------------------------------ MODULE DtbImage ------------------------------
(***************************************************************************)
(* The table of device trees (DTBH): load_dtbh_block of dtbhtool/dtbimg.c, *)
(* the program around it (mkdtbimg.c) and the one that takes an image      *)
(* apart (unpackdtbhimg.c).                                                *)
(*                                                                         *)
(* The device trees of a directory are gathered in the order readdir gives *)
(* them, their entries are sorted, offsets are computed from a running     *)
(* header size, and the blobs are copied behind the table.  A blob is its  *)
(* index in blob_list; what matters is where it is stored and where its    *)
(* entry says it is.                                                       *)
(***************************************************************************)
EXTENDS Integers, Sequences, Functions

CONSTANTS
  Listings,    \* possible directories: sequences of files as readdir returns them
  PageSize,    \* the page size, a power of two
  HeaderSize,  \* DT_HEADER_PHYS_SIZE, 12
  EntrySize,   \* DT_ENTRY_PHYS_SIZE, 32
  WordSize     \* sizeof(uint32_t), 4

\* A file of the directory: one that is loaded, one that is skipped (another
\* name, an invalid tree, another platform) or one that cannot be read.
\* Chips and revisions are below 2^31.
FileType == [kind : {"dtb", "other", "unreadable"}, size : Nat \ {0},
             chip : Nat, hw_rev : Nat, hw_rev_end : Nat]

ASSUME DtbImageAssumption ==
  /\ Listings \subseteq Seq(FileType)
  /\ PageSize \in Nat \ {0} /\ HeaderSize \in Nat /\ EntrySize \in Nat
  /\ WordSize \in Nat \ {0}

VARIABLES
  pc,        \* "dir", "built", "written", "reading", "done" or "failed"
  listing,   \* what readdir still returns
  blobs,     \* blob_list: the files loaded, in order
  hdr_sz,    \* the size reserved for the table
  blob_sz,   \* the size of the blobs
  entries,   \* the table
  placed,    \* where each blob is copied to
  output,    \* the output file: "none", "partial" or "complete"
  i,         \* the entry unpackdtbhimg looks at next
  dumps,     \* the files it has written: name -> blob, or 0 for other bytes
  refused    \* the names whose file could not be opened or written

dtbVars == <<pc, listing, blobs, hdr_sz, blob_sz, entries, placed, output, i, dumps, refused>>
buildVars == <<listing, blobs, hdr_sz, blob_sz, entries, placed>>

\* (size + pagemask) & ~pagemask
PageAlign(size) == ((size + PageSize - 1) \div PageSize) * PageSize

DtbInit ==
  /\ pc = "dir" /\ listing \in Listings /\ blobs = <<>>
  /\ hdr_sz = HeaderSize /\ blob_sz = 0 /\ entries = <<>> /\ placed = <<>>
  /\ output = "none" /\ i = 1 /\ dumps = <<>> /\ refused = {}

-----------------------------------------------------------------------------
\* One round of the readdir loop.
ReadDir ==
  /\ pc = "dir" /\ listing # <<>>
  /\ listing' = Tail(listing)
  /\ CASE Head(listing).kind = "other" -> UNCHANGED <<pc, blobs, hdr_sz, blob_sz>>
       [] Head(listing).kind = "unreadable" ->
            pc' = "failed" /\ UNCHANGED <<blobs, hdr_sz, blob_sz>>
       [] Head(listing).kind = "dtb" ->
            /\ blobs' = Append(blobs, Head(listing))
            /\ blob_sz' = blob_sz + PageAlign(Head(listing).size)
            /\ hdr_sz' = hdr_sz + Len(blobs') * EntrySize
            /\ UNCHANGED pc
  /\ UNCHANGED <<entries, placed, output, i, dumps, refused>>

\* dt_entry_cmp, on the blobs of two entries.
EntryCmp(a, b) ==
  IF blobs[a].chip # blobs[b].chip
  THEN blobs[a].chip - blobs[b].chip ELSE blobs[a].hw_rev - blobs[b].hw_rev

\* What qsort may return: entries that compare equal come in any order.
SortedEntries ==
  { order \in Bijection(DOMAIN blobs, DOMAIN blobs) :
      \A m, n \in DOMAIN order : m < n => EntryCmp(order[m], order[n]) <= 0 }

\* Where the blobs lie one after the other from offset first on.
Layout(first) ==
  LET start[b \in DOMAIN blobs] ==
        IF b = 1 THEN first ELSE start[b - 1] + PageAlign(blobs[b - 1].size)
  IN start

\* Mutant: the offsets are handed out in the order of the table.
OffsetInTableOrder(order, n) == Layout(PageAlign(hdr_sz + WordSize))[n]

\* entry->offset = entry->blob->offset, with the offsets computed from hdr_sz.
OffsetOf(order, n) == Layout(PageAlign(hdr_sz + WordSize))[order[n]]

\* Mutant: the blobs follow the table without padding.
FirstBlobUnpadded == HeaderSize + Len(blobs) * EntrySize

\* The offset at which copying the blobs starts: header, entries and the
\* padding after them.
FirstBlob ==
  LET offset == HeaderSize + Len(blobs) * EntrySize
  IN offset + PageSize - (offset % PageSize)

\* The directory is exhausted: sort the entries, compute the offsets, build the
\* block.
Build ==
  /\ pc = "dir" /\ listing = <<>> /\ blobs # <<>>
  /\ hdr_sz' = PageAlign(hdr_sz + WordSize)
  /\ \E order \in SortedEntries :
       entries' = [n \in DOMAIN order |->
                     [blob |-> order[n], offset |-> OffsetOf(order, n),
                      size |-> PageAlign(blobs[order[n]].size)]]
  /\ placed' = Layout(FirstBlob)
  /\ pc' = "built"
  /\ UNCHANGED <<listing, blobs, blob_sz, output, i, dumps, refused>>

\* err(1): the directory cannot be opened, or memory runs out.
DirFails ==
  /\ pc = "dir"
  /\ pc' = "failed"
  /\ UNCHANGED <<buildVars, output, i, dumps, refused>>

NoDtbs ==
  /\ pc = "dir" /\ listing = <<>> /\ blobs = <<>>
  /\ pc' = "failed"
  /\ UNCHANGED <<buildVars, output, i, dumps, refused>>

\* mkdtbimg opens the output and writes the block.
OpenOutput ==
  /\ pc = "built" /\ output = "none"
  /\ \/ output' = "partial" /\ UNCHANGED pc
     \/ pc' = "failed" /\ UNCHANGED output
  /\ UNCHANGED <<buildVars, i, dumps, refused>>

WriteOutput ==
  /\ pc = "built" /\ output = "partial"
  /\ output' = "complete" /\ pc' = "written"
  /\ UNCHANGED <<buildVars, i, dumps, refused>>

OutputFails ==
  /\ pc = "built" /\ output = "partial"
  /\ output' = "none" /\ pc' = "failed"
  /\ UNCHANGED <<buildVars, i, dumps, refused>>

-----------------------------------------------------------------------------
\* unpackdtbhimg reads one page, the header; it may fail to.
ReadHeader ==
  /\ pc = "written" /\ output = "complete"
  /\ pc' \in {"reading", "failed"}
  /\ UNCHANGED <<buildVars, output, i, dumps, refused>>

\* The name of a dump; platform and subtype are the same for all.
DumpName(blob) == <<blobs[blob].chip, blobs[blob].hw_rev, blobs[blob].hw_rev_end>>

\* What lies at an offset: a blob, or bytes that are no blob.
StoredAt(entry) ==
  IF \E b \in DOMAIN placed : placed[b] = entry.offset /\ entry.size = PageAlign(blobs[b].size)
  THEN CHOOSE b \in DOMAIN placed : placed[b] = entry.offset
  ELSE 0

\* dump_dtb: the file is created or overwritten.
Dump(name, content) ==
  [n \in DOMAIN dumps \cup {name} |-> IF n = name THEN content ELSE dumps[n]]

\* One entry of the table, as long as it lies in the page that was read.  A
\* file that cannot be opened or written is left as it is or holds too little.
ReadEntry ==
  /\ pc = "reading" /\ i <= Len(entries)
  /\ HeaderSize + i * EntrySize <= PageSize
  /\ LET name == DumpName(entries[i].blob) IN
     \/ dumps' = Dump(name, StoredAt(entries[i])) /\ UNCHANGED refused
     \/ dumps' \in {dumps, Dump(name, 0)} /\ refused' = refused \cup {name}
  /\ i' = i + 1
  /\ UNCHANGED <<buildVars, pc, output>>

AllEntriesRead ==
  /\ pc = "reading" /\ i > Len(entries)
  /\ pc' = "done"
  /\ UNCHANGED <<buildVars, output, i, dumps, refused>>

\* load_dtbh_block, mkdtbimg around it, and unpackdtbhimg.
BlockNext == ReadDir \/ DirFails \/ Build \/ NoDtbs
OutputNext == OpenOutput \/ WriteOutput \/ OutputFails
UnpackNext == ReadEntry \/ AllEntriesRead

-----------------------------------------------------------------------------
IsBuilt == placed # <<>>

\* hdr_sz, to which every entry adds the size of all entries so far, is rounded
\* to the page on which the entries end.
TableFits == hdr_sz = FirstBlob

\* The blobs lie behind the table, apart from each other, on page boundaries and
\* inside the block that is allocated for them, whether or not the table fits.
BlobsInsideBlock ==
  IsBuilt =>
    \A b \in DOMAIN placed :
      /\ placed[b] >= HeaderSize + Len(entries) * EntrySize
      /\ placed[b] % PageSize = 0
      /\ placed[b] + blobs[b].size <= hdr_sz + blob_sz
      /\ \A c \in DOMAIN placed \ {b} :
           \/ placed[b] + blobs[b].size <= placed[c]
           \/ placed[c] + blobs[c].size <= placed[b]
=============================================================================
