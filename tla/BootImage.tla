----------------------------- MODULE BootImage -----------------------------
(***************************************************************************)
(* Writing and taking apart an Android boot image: dtbhtool/mkbootimg.c    *)
(* and dtbhtool/unpackbootimg.c, with the header of dtbhtool/bootimg.h.    *)
(*                                                                         *)
(* mkbootimg loads its inputs, opens the output and writes section after   *)
(* section, each followed by padding up to the next page; any write may    *)
(* fail.  unpackbootimg looks for the header and finds each section by     *)
(* adding up the sizes in it.  Only where a section lies matters here, not *)
(* the bytes in it.  Page sizes are powers of two, so that "& pagemask" is *)
(* the remainder by the page size.                                         *)
(***************************************************************************)
EXTENDS Integers

CONSTANTS
  Arguments,      \* what mkbootimg may be called with
  HdrSize,        \* sizeof(boot_img_hdr)
  SigSize,        \* 256, the bytes taken of the signature
  PrefixSizes,    \* bytes found in front of the image when it is unpacked
  MaxPrefix,      \* 512, how far unpackbootimg looks for the magic
  Overrides,      \* page sizes given to unpackbootimg, 0 for none
  AddrSpace,      \* 2^32
  KernelOffset    \* 0x8000, the kernel offset unpackbootimg assumes

Absent == -1

\* The page size, the sizes of the inputs and the addresses.  --ramdisk NONE
\* has size 0, and the size of a signature is not kept.
Argument ==
  [page_size : Nat \ {0}, kernel : Nat, ramdisk : Nat, second : Nat \cup {Absent},
   dt : Nat \cup {Absent}, signature : {SigSize, Absent},
   base : 0 .. AddrSpace - 1, kernel_offset : 0 .. AddrSpace - 1,
   ramdisk_offset : 0 .. AddrSpace - 1, second_offset : 0 .. AddrSpace - 1,
   tags_offset : 0 .. AddrSpace - 1]

ASSUME BootImageAssumption ==
  /\ Arguments \subseteq Argument
  /\ HdrSize \in Nat /\ SigSize \in Nat
  /\ PrefixSizes \subseteq Nat /\ MaxPrefix \in Nat /\ Overrides \subseteq Nat
  /\ AddrSpace \in Nat \ {0} /\ KernelOffset \in 0 .. AddrSpace - 1

\* The sections, and the order both programs go through them in.
Sections == {"header", "kernel", "ramdisk", "second", "dt", "signature"}
Following == [header |-> "kernel", kernel |-> "ramdisk", ramdisk |-> "second",
              second |-> "dt", dt |-> "signature", signature |-> "end"]

VARIABLES
  mk,      \* mkbootimg: "args", "open", "write", "done" or "failed"
  hdr,     \* the header, with whether the optional inputs were given
  todo,    \* the section to be written next, or "end"
  at,      \* where each section starts in the image, or Absent
  len,     \* the length of the file so far
  image,   \* the output file: "none", "partial" or "complete"
  un,      \* unpackbootimg: "off", "read", "done" or "failed"
  prefix,  \* bytes in front of the magic
  page,    \* the page size unpackbootimg uses
  pos,     \* its position in the file
  unread,  \* the section it reads next, or "end"
  got,     \* where it read each section, counted from the magic, or Absent
  files    \* what the files it writes hold: "none", "data" or "empty"

mkVars == <<mk, hdr, todo, at, len, image>>
unVars == <<un, prefix, page, pos, unread, got, files>>
bootVars == <<mkVars, unVars>>

\* The size of each section according to the header; an input that was not
\* given has size 0.
SizeOf(h, x) ==
  CASE x = "header" -> HdrSize [] x = "signature" -> SigSize
    [] OTHER -> IF h.size[x] = Absent THEN 0 ELSE h.size[x]

\* write_padding and read_padding: the bytes between an item and the next page.
WritePadding(pagesize, itemsize) ==
  IF itemsize % pagesize = 0 THEN 0 ELSE pagesize - (itemsize % pagesize)

\* Mutant: a full page is skipped after an item that ends at a page.
ReadPaddingAlways(itemsize, pagesize) == pagesize - (itemsize % pagesize)

ReadPadding(itemsize, pagesize) ==
  IF itemsize % pagesize = 0 THEN 0 ELSE pagesize - (itemsize % pagesize)

\* hdr.kernel_addr and its kind.
LoadAddr(base, offset) == (base + offset) % AddrSpace

NoHeader == [size |-> [x \in Sections |-> Absent], page_size |-> 1,
             kernel_addr |-> 0, ramdisk_addr |-> 0, second_addr |-> 0, tags_addr |-> 0]
Nowhere == [x \in Sections |-> Absent]

BootInit ==
  /\ mk = "args" /\ hdr = NoHeader /\ todo = "end" /\ at = Nowhere /\ len = 0
  /\ image \in {"none", "complete"}
  /\ un = "off" /\ prefix = 0 /\ page = 1 /\ pos = 0 /\ unread = "end" /\ got = Nowhere
  /\ files = [x \in Sections |-> "none"]

-----------------------------------------------------------------------------
\* The options are read and every input is loaded.
Load(a) ==
  /\ mk = "args"
  /\ hdr' = [size |-> [header |-> HdrSize, kernel |-> a.kernel, ramdisk |-> a.ramdisk,
                       second |-> a.second, dt |-> a.dt, signature |-> a.signature],
             page_size |-> a.page_size,
             kernel_addr |-> LoadAddr(a.base, a.kernel_offset),
             ramdisk_addr |-> LoadAddr(a.base, a.ramdisk_offset),
             second_addr |-> LoadAddr(a.base, a.second_offset),
             tags_addr |-> LoadAddr(a.base, a.tags_offset)]
  /\ mk' = "open"
  /\ UNCHANGED <<todo, at, len, image, unVars>>

\* A bad option, or an input that cannot be loaded.
LoadFails ==
  /\ mk = "args"
  /\ mk' = "failed"
  /\ UNCHANGED <<hdr, todo, at, len, image, unVars>>

\* The output is created or truncated.
Open ==
  /\ mk = "open"
  /\ \/ mk' = "write" /\ image' = "partial" /\ todo' = "header"
     \/ mk' = "failed" /\ UNCHANGED <<image, todo>>
  /\ UNCHANGED <<hdr, at, len, unVars>>

\* The size write_padding is called with after a section; the signature is not
\* padded.
PaddedAs(x) == IF x = "second" THEN "ramdisk" ELSE x
PaddingAfter(x) ==
  IF x = "signature" THEN 0 ELSE WritePadding(hdr.page_size, SizeOf(hdr, PaddedAs(x)))

\* The next section and its padding, if its input was given.
WriteSection ==
  /\ mk = "write" /\ todo \in Sections
  /\ IF hdr.size[todo] = Absent
     THEN UNCHANGED <<at, len>>
     ELSE /\ at' = [at EXCEPT ![todo] = len]
          /\ len' = len + SizeOf(hdr, todo) + PaddingAfter(todo)
  /\ todo' = Following[todo]
  /\ UNCHANGED <<mk, hdr, image, unVars>>

\* fail: a write of a section or of its padding fails, the file is unlinked.
WriteFails ==
  /\ mk = "write" /\ todo \in Sections /\ hdr.size[todo] # Absent
  /\ mk' = "failed" /\ image' = "none"
  /\ UNCHANGED <<hdr, todo, at, len, unVars>>

Written ==
  /\ mk = "write" /\ todo = "end"
  /\ mk' = "done" /\ image' = "complete"
  /\ UNCHANGED <<hdr, todo, at, len, unVars>>

-----------------------------------------------------------------------------
\* unpackbootimg looks for the magic in the first bytes of the file.
FindHeader ==
  /\ mk = "done" /\ un = "off"
  /\ \E p \in PrefixSizes, override \in Overrides :
       /\ prefix' = p
       /\ IF p > MaxPrefix
          THEN un' = "failed" /\ UNCHANGED <<pos, page, unread>>
          ELSE /\ un' = "read" /\ pos' = p
               /\ page' = IF override = 0 THEN hdr.page_size ELSE override
               /\ unread' = "header"
  /\ UNCHANGED <<mkVars, got, files>>

\* Each section in turn, whether it was given or not, and the padding after it.
\* Second stage, device tree and signature are written to the stream of the
\* ramdisk file, which has been closed: what reaches their files is undefined.
ReadSection ==
  /\ un = "read" /\ unread \in Sections
  /\ got' = [got EXCEPT ![unread] = pos - prefix]
  /\ pos' = pos + SizeOf(hdr, unread)
              + (IF unread = "signature" THEN 0 ELSE ReadPadding(SizeOf(hdr, unread), page))
  /\ \E held \in (IF unread \in {"second", "dt", "signature"} THEN {"data", "empty"}
                  ELSE {"data"}) : files' = [files EXCEPT ![unread] = held]
  /\ unread' = Following[unread]
  /\ UNCHANGED <<mkVars, un, prefix, page>>

ReadAll ==
  /\ un = "read" /\ unread = "end"
  /\ un' = "done"
  /\ UNCHANGED <<mkVars, prefix, page, pos, unread, got, files>>

\* Both programs, once the inputs are loaded.
BootNext ==
  \/ LoadFails \/ Open \/ WriteSection \/ WriteFails \/ Written
  \/ FindHeader \/ ReadSection \/ ReadAll

-----------------------------------------------------------------------------
\* Mutant: the offset is taken from the kernel's address alone.
ReportedOffsetFromKernel(h, addr) == (addr - h.kernel_addr) % AddrSpace

\* The base and the offsets unpackbootimg reports, in the arithmetic of its
\* unsigned integers.
ReportedBase(h) == (h.kernel_addr - KernelOffset) % AddrSpace
ReportedOffset(h, addr) == (addr - h.kernel_addr + KernelOffset) % AddrSpace

\* The second stage has been padded by what its own size calls for.
SecondWellPadded ==
  at["second"] # Absent =>
    WritePadding(hdr.page_size, SizeOf(hdr, "second"))
      = WritePadding(hdr.page_size, SizeOf(hdr, "ramdisk"))

\* unpackbootimg finds every section mkbootimg wrote where it was written,
\* whatever the sizes and whatever precedes the image: the two programs agree
\* on the padding.  Behind a second stage this holds if its padding, computed
\* from the size of the ramdisk, happens to be right.
RoundTrip ==
  \A x \in Sections :
    /\ got[x] # Absent /\ at[x] # Absent /\ page = hdr.page_size
    /\ x \in {"dt", "signature"} => SecondWellPadded
    => got[x] = at[x]

\* The reported base and offsets, given to mkbootimg with the default kernel
\* offset, produce the same load addresses again, also when an address wraps.
AddressesSurvive ==
  mk = "done" =>
    LET base == ReportedBase(hdr) IN
    /\ LoadAddr(base, KernelOffset) = hdr.kernel_addr
    /\ \A addr \in {hdr.ramdisk_addr, hdr.second_addr, hdr.tags_addr} :
         LoadAddr(base, ReportedOffset(hdr, addr)) = addr
=============================================================================
