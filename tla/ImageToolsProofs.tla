-------------------------- MODULE ImageToolsProofs --------------------------
(***************************************************************************)
(* Proofs about the image tools, for every size of every input: a boot     *)
(* image comes apart where it was put together, the addresses it reports   *)
(* give the same image again, the device trees lie inside the block        *)
(* allocated for them, and a directory of device trees comes back.         *)
(***************************************************************************)
EXTENDS ImageTools, WellFoundedInduction, TLAPS

-----------------------------------------------------------------------------
(* Remainders, which the tools compute with "& pagemask" and with unsigned *)
(* integers.                                                               *)

\* Quotient and remainder.
LEMMA DivMod ==
  ASSUME NEW x \in Int, NEW m \in Nat \ {0}
  PROVE  x \div m \in Int /\ x % m \in 0 .. m - 1 /\ x = m * (x \div m) + (x % m)
OBVIOUS

\* They are the only ones.
LEMMA DivModUnique ==
  ASSUME NEW m \in Nat \ {0}, NEW x \in Int, NEW q \in Int, NEW r \in 0 .. m - 1,
         x = m * q + r
  PROVE  x % m = r /\ x \div m = q
<1> DEFINE p == x \div m
           s == x % m
<1>1. p \in Int /\ s \in 0 .. m - 1 /\ x = m * p + s
  BY DivMod, Zenon
<1> HIDE DEF p, s
<1>2. ASSUME NEW a \in Int, NEW b \in Int, a < b
      PROVE  m * a + m <= m * b
  <2>1. b - a - 1 \in Nat
    BY <1>2
  <2>2. m * (b - a - 1) >= 0
    BY <2>1
  <2>3. m * (b - a - 1) = m * b - m * a - m
    OBVIOUS
  <2> QED
    BY <2>2, <2>3
<1>3. ~(q < p) /\ ~(p < q)
  BY <1>1, <1>2
<1>4. q = p /\ r = s
  BY <1>1, <1>3
<1> QED
  BY <1>4, Zenon DEF p, s

\* A remainder may be taken before or after adding.
LEMMA ModSum ==
  ASSUME NEW m \in Nat \ {0}, NEW x \in Int, NEW y \in Int
  PROVE  ((x % m) + y) % m = (x + y) % m
<1> DEFINE s == x % m
           p == x \div m
           q == (x + y) \div m
           r == (x + y) % m
<1>1. s \in 0 .. m - 1 /\ p \in Int /\ x = m * p + s
  BY DivMod, Zenon
<1>2. r \in 0 .. m - 1 /\ q \in Int /\ x + y = m * q + r
  BY DivMod, x + y \in Int, Zenon
<1> HIDE DEF s, p, q, r
<1>3. m * (q - p) = m * q - m * p
  BY <1>1, <1>2
<1>4. s + y = m * (q - p) + r
  BY <1>1, <1>2, <1>3
<1>5. s + y \in Int /\ q - p \in Int
  BY <1>1, <1>2
<1>6. (s + y) % m = r
  BY <1>2, <1>4, <1>5, DivModUnique, Zenon
<1> QED
  BY <1>6, Zenon DEF s, r

-----------------------------------------------------------------------------
(* The boot image.  The invariant says where a section belongs: behind the *)
(* items of the sections before it, which are summed up here once as the   *)
(* writer pads them and once as the reader does.                           *)

Header == [size : [Sections -> Nat \cup {Absent}], page_size : Nat \ {0},
           kernel_addr : 0 .. AddrSpace - 1, ramdisk_addr : 0 .. AddrSpace - 1,
           second_addr : 0 .. AddrSpace - 1, tags_addr : 0 .. AddrSpace - 1]

\* How many sections have been passed when a section is the next.
Passed == [header |-> 0, kernel |-> 1, ramdisk |-> 2, second |-> 3, dt |-> 4,
           signature |-> 5, end |-> 6]

\* What follows a section that takes up item(section) bytes.
StartsFrom(item(_)) ==
  [header |-> 0, kernel |-> item("header"),
   ramdisk |-> item("header") + item("kernel"),
   second |-> item("header") + item("kernel") + item("ramdisk"),
   dt |-> item("header") + item("kernel") + item("ramdisk") + item("second"),
   signature |-> item("header") + item("kernel") + item("ramdisk") + item("second")
                   + item("dt"),
   end |-> item("header") + item("kernel") + item("ramdisk") + item("second")
             + item("dt") + item("signature")]

WriteItem(x) == IF hdr.size[x] = Absent THEN 0 ELSE SizeOf(hdr, x) + PaddingAfter(x)
ReadItem(x) ==
  SizeOf(hdr, x) + (IF x = "signature" THEN 0 ELSE ReadPadding(SizeOf(hdr, x), page))
WriteStart == StartsFrom(WriteItem)
ReadStart == StartsFrom(ReadItem)

BootTypeOK ==
  /\ mk \in {"args", "open", "write", "done", "failed"} /\ hdr \in Header
  /\ todo \in Sections \cup {"end"}
  /\ at \in [Sections -> Nat \cup {Absent}] /\ len \in Nat
  /\ un \in {"off", "read", "done", "failed"} /\ prefix \in Nat /\ page \in Nat \ {0}
  /\ pos \in Int /\ unread \in Sections \cup {"end"}
  /\ got \in [Sections -> Nat \cup {Absent}]

\* mkbootimg: every section written lies behind the items before it, and every
\* input that was given has been written once it has been passed.
WriterInv ==
  /\ mk \in {"args", "open"} => at = Nowhere /\ len = 0
  /\ mk \notin {"args", "failed"} => hdr.size["header"] # Absent
  /\ mk = "write" => len = WriteStart[todo]
  /\ mk = "done" => todo = "end"
  /\ mk \in {"write", "done"} =>
       \A x \in Sections : Passed[x] < Passed[todo] /\ hdr.size[x] # Absent => at[x] # Absent
  /\ \A x \in Sections : at[x] # Absent => at[x] = WriteStart[x]

\* unpackbootimg: it starts on a finished image and reads every section behind
\* the items before it.
ReaderInv ==
  /\ un # "off" => mk = "done"
  /\ un = "off" => got = Nowhere
  /\ un = "read" => pos - prefix = ReadStart[unread]
  /\ un = "done" => unread = "end"
  /\ un \in {"read", "done"} =>
       \A x \in Sections : Passed[x] < Passed[unread] => got[x] # Absent
  /\ \A x \in Sections : got[x] # Absent => got[x] = ReadStart[x]

BootInv == BootTypeOK /\ WriterInv /\ ReaderInv

-----------------------------------------------------------------------------
(* The table of device trees.                                              *)

DtbTypeOK ==
  /\ pc \in {"dir", "built", "written", "reading", "done", "failed", "garbage"}
  /\ listing \in Seq(FileType) /\ blobs \in Seq(FileType)
  /\ hdr_sz \in Nat /\ blob_sz \in Nat /\ i \in Nat \ {0}

\* start[b] is the size of the blobs in front of blob b, with their padding.
Sums(start) ==
  /\ start \in [1 .. Len(blobs) + 1 -> Nat]
  /\ start[1] = 0 /\ start[Len(blobs) + 1] = blob_sz
  /\ \A b \in 1 .. Len(blobs) : start[b + 1] = start[b] + PageAlign(blobs[b].size)
  /\ \A b \in 1 .. Len(blobs), c \in 1 .. Len(blobs) + 1 :
       b < c => start[b] + PageAlign(blobs[b].size) <= start[c]
  /\ \A b \in 1 .. Len(blobs) + 1 : start[b] % PageSize = 0

\* The blobs have been copied and the entries point to them, counted from hdr_sz.
LaidOut(start) ==
  /\ placed \in [1 .. Len(blobs) -> Nat]
  /\ \A b \in 1 .. Len(blobs) : placed[b] = FirstBlob + start[b]
  /\ entries \in [1 .. Len(blobs) -> [blob : 1 .. Len(blobs), offset : Nat, size : Nat]]
  /\ \A n \in 1 .. Len(blobs) :
       /\ entries[n].offset = hdr_sz + start[entries[n].blob]
       /\ entries[n].size = PageAlign(blobs[entries[n].blob].size)
  /\ FirstBlob <= hdr_sz

\* The table grows while the directory is read and is built at its end.
BlockInv ==
  /\ placed = <<>> => entries = <<>>
  /\ pc = "dir" => placed = <<>> /\ hdr_sz >= HeaderSize + Len(blobs) * EntrySize
  /\ \E start : Sums(start) /\ (placed # <<>> => LaidOut(start))

\* unpackdtbhimg: of the entries read so far, the last with its name has been
\* dumped as the blob it names.
DumpInv ==
  /\ pc \notin {"reading", "done"} => i = 1
  /\ i <= Len(entries) + 1
  /\ pc = "done" => i = Len(entries) + 1
  /\ TableFits =>
       \A n \in 1 .. i - 1 :
         /\ DumpName(entries[n].blob) \notin refused
         /\ \A m \in n + 1 .. i - 1 : DumpName(entries[m].blob) # DumpName(entries[n].blob)
         => /\ DumpName(entries[n].blob) \in DOMAIN dumps
            /\ dumps[DumpName(entries[n].blob)] = entries[n].blob

\* The way through a boot image.
SectionInv ==
  /\ tool = "mkbootimg_dt_dir" /\ mk \notin {"args", "failed"} => hdr.size["dt"] = BlockSize
  /\ pc = "garbage" => un = "done" /\ (page # hdr.page_size \/ ~SecondWellPadded)

IInv == BootInv /\ DtbTypeOK /\ BlockInv /\ DumpInv /\ SectionInv

-----------------------------------------------------------------------------
(* Proofs about the boot image.                                            *)

\* A section and its padding are no less than nothing.
LEMMA ItemTypes ==
  ASSUME BootTypeOK, NEW x \in Sections
  PROVE  /\ SizeOf(hdr, x) \in Nat /\ PaddingAfter(x) \in Nat
         /\ WriteItem(x) \in Nat /\ ReadItem(x) \in Nat
<1>1. ASSUME NEW y \in Sections
      PROVE  SizeOf(hdr, y) \in Nat
  BY BootImageAssumption, Zenon DEF BootTypeOK, Header, SizeOf, Sections, Absent
<1>2. ASSUME NEW m \in Nat \ {0}, NEW n \in Nat
      PROVE  WritePadding(m, n) \in Nat /\ ReadPadding(n, m) \in Nat
  <2>1. n % m \in 0 .. m - 1
    BY DivMod
  <2> QED
    BY <2>1 DEF WritePadding, ReadPadding
<1>3. PaddedAs(x) \in Sections
  BY Zenon DEF PaddedAs, Sections
<1>4. hdr.page_size \in Nat \ {0} /\ page \in Nat \ {0}
  BY Zenon DEF BootTypeOK, Header
<1>5. PaddingAfter(x) \in Nat
  BY <1>1, <1>2, <1>3, <1>4, Zenon DEF PaddingAfter
<1>6. ReadPadding(SizeOf(hdr, x), page) \in Nat
  BY <1>1, <1>2, <1>4, Zenon
<1> QED
  BY <1>1, <1>5, <1>6 DEF WriteItem, ReadItem

\* The positions both programs compute are natural numbers, and a section's
\* successor starts where its item ends.
LEMMA StartSteps ==
  ASSUME BootTypeOK
  PROVE  /\ \A x \in Sections \cup {"end"} : WriteStart[x] \in Nat /\ ReadStart[x] \in Nat
         /\ \A x \in Sections : /\ WriteStart[Following[x]] = WriteStart[x] + WriteItem(x)
                                /\ ReadStart[Following[x]] = ReadStart[x] + ReadItem(x)
         /\ WriteStart["header"] = 0 /\ ReadStart["header"] = 0
<1>1. \A x \in Sections : WriteItem(x) \in Nat /\ ReadItem(x) \in Nat
  BY ItemTypes, Zenon
<1> QED
  BY <1>1 DEF Sections, Following, WriteStart, ReadStart, StartsFrom

\* The order of the sections.
LEMMA PassedSteps ==
  /\ \A x \in Sections : Following[x] \in Sections \cup {"end"}
  /\ \A x, y \in Sections : Passed[y] < Passed[Following[x]] => y = x \/ Passed[y] < Passed[x]
  /\ \A x \in Sections : ~(Passed[x] < Passed["header"]) /\ Passed[x] < Passed["end"]
BY DEF Sections, Following, Passed

\* Loading the inputs fills in the header before anything is written.
LEMMA LoadStep ==
  ASSUME BootInv, NEW a \in Argument, Load(a)
  PROVE  BootInv'
<1>1. \A base, offset \in 0 .. AddrSpace - 1 : LoadAddr(base, offset) \in 0 .. AddrSpace - 1
  BY BootImageAssumption, DivMod DEF LoadAddr
<1>2. hdr' \in Header
  <2> DEFINE size == [header |-> HdrSize, kernel |-> a.kernel, ramdisk |-> a.ramdisk,
                      second |-> a.second, dt |-> a.dt, signature |-> a.signature]
  <2>1. /\ a.page_size \in Nat \ {0} /\ a.kernel \in Nat /\ a.ramdisk \in Nat
        /\ a.second \in Nat \cup {Absent} /\ a.dt \in Nat \cup {Absent}
        /\ a.signature \in Nat \cup {Absent} /\ HdrSize \in Nat
    BY BootImageAssumption, Zenon DEF Argument
  <2>2. /\ LoadAddr(a.base, a.kernel_offset) \in 0 .. AddrSpace - 1
        /\ LoadAddr(a.base, a.ramdisk_offset) \in 0 .. AddrSpace - 1
        /\ LoadAddr(a.base, a.second_offset) \in 0 .. AddrSpace - 1
        /\ LoadAddr(a.base, a.tags_offset) \in 0 .. AddrSpace - 1
    BY <1>1, Zenon DEF Argument
  <2>3. size \in [Sections -> Nat \cup {Absent}]
    BY <2>1 DEF Sections
  <2>4. hdr' = [size |-> size, page_size |-> a.page_size,
                kernel_addr |-> LoadAddr(a.base, a.kernel_offset),
                ramdisk_addr |-> LoadAddr(a.base, a.ramdisk_offset),
                second_addr |-> LoadAddr(a.base, a.second_offset),
                tags_addr |-> LoadAddr(a.base, a.tags_offset)]
    BY Zenon DEF Load
  <2> HIDE DEF size
  <2> QED
    BY <2>1, <2>2, <2>3, <2>4, Zenon DEF Header
<1>3. BootTypeOK'
  BY <1>2, Zenon DEF BootInv, BootTypeOK, Load, unVars
<1>4. at' = Nowhere /\ len' = 0 /\ mk' = "open" /\ un' = "off" /\ got' = Nowhere
  BY Zenon DEF BootInv, WriterInv, ReaderInv, Load, unVars
<1>5. hdr'.size["header"] # Absent
  BY BootImageAssumption DEF Load, Absent
<1> QED
  BY <1>3, <1>4, <1>5, Zenon DEF BootInv, WriterInv, ReaderInv, Nowhere

\* Every step of mkbootimg and unpackbootimg after that keeps the invariant.
LEMMA BootStep ==
  ASSUME BootInv, BootNext
  PROVE  BootInv'
<1> USE DEF BootInv
<1>1. hdr' = hdr
  BY Zenon DEF BootNext, LoadFails, Open, WriteSection, WriteFails, Written, FindHeader,
         ReadSection, ReadAll, mkVars
<1>2. WriteStart' = WriteStart
  BY <1>1 DEF WriteStart, StartsFrom, WriteItem, SizeOf, PaddingAfter
<1>3. page' = page => ReadStart' = ReadStart
  BY <1>1, Zenon DEF ReadStart, StartsFrom, ReadItem, SizeOf
<1>4. CASE LoadFails
  BY <1>1, <1>2, <1>3, <1>4, Zenon DEF LoadFails, unVars, BootTypeOK, WriterInv, ReaderInv
<1>5. CASE Open
  <2>1. \A x \in Sections : ~(Passed[x] < Passed["header"])
    BY PassedSteps, Zenon
  <2>2. WriteStart["header"] = 0
    BY StartSteps, Zenon
  <2> QED
    BY <1>1, <1>2, <1>3, <1>5, <2>1, <2>2, Zenon
    DEF Open, unVars, BootTypeOK, WriterInv, ReaderInv, Sections, Nowhere
<1>6. CASE WriteSection
  <2>1. todo \in Sections /\ todo' = Following[todo] /\ mk = "write" /\ mk' = "write"
    BY <1>6, Zenon DEF WriteSection
  <2>2. SizeOf(hdr, todo) \in Nat /\ WriteItem(todo) \in Nat
    BY <2>1, ItemTypes, Zenon
  <2>3. len = WriteStart[todo] /\ len \in Nat
    BY <2>1, Zenon DEF WriterInv, BootTypeOK
  <2>4. len' = len + WriteItem(todo)
    <3>1. CASE hdr.size[todo] = Absent
      BY <1>6, <2>3, <3>1 DEF WriteSection, WriteItem
    <3>2. CASE hdr.size[todo] # Absent
      <4>1. len' = len + SizeOf(hdr, todo) + PaddingAfter(todo)
        BY <1>6, <3>2, Zenon DEF WriteSection
      <4>2. WriteItem(todo) = SizeOf(hdr, todo) + PaddingAfter(todo)
        BY <3>2, Zenon DEF WriteItem
      <4>3. PaddingAfter(todo) \in Int
        BY <2>1, ItemTypes
      <4> QED
        BY <2>2, <2>3, <4>1, <4>2, <4>3
    <3> QED
      BY <3>1, <3>2, Zenon
  <2>5. len' = WriteStart[todo'] /\ len' \in Nat
    BY <2>1, <2>2, <2>3, <2>4, StartSteps
  <2>6. /\ at' \in [Sections -> Nat \cup {Absent}]
        /\ hdr.size[todo] # Absent => at'[todo] = len
        /\ hdr.size[todo] = Absent => at'[todo] = at[todo]
        /\ \A x \in Sections : x # todo => at'[x] = at[x]
    BY <1>6, <2>1, <2>3, Zenon DEF WriteSection, BootTypeOK
  <2>7. BootTypeOK'
    BY <1>6, <2>1, <2>5, <2>6, PassedSteps DEF WriteSection, BootTypeOK, unVars
  <2>8. \A x \in Sections : Passed[x] < Passed[todo'] /\ hdr.size[x] # Absent => at'[x] # Absent
    <3>1. \A x \in Sections : Passed[x] < Passed[todo'] => x = todo \/ Passed[x] < Passed[todo]
      BY <2>1, PassedSteps, Zenon
    <3>2. len # Absent
      BY <2>3 DEF Absent
    <3> QED
      BY <2>1, <2>6, <3>1, <3>2, Zenon DEF WriterInv
  <2>9. \A x \in Sections : at'[x] # Absent => at'[x] = WriteStart[x]
    BY <2>3, <2>6, Zenon DEF WriterInv
  <2>10. WriterInv'
    BY <1>1, <1>2, <2>1, <2>5, <2>8, <2>9, Zenon DEF WriterInv
  <2>11. ReaderInv'
    BY <1>1, <1>3, <1>6, <2>1, Zenon DEF WriteSection, unVars, ReaderInv
  <2> QED
    BY <2>7, <2>10, <2>11, Zenon
<1>7. CASE WriteFails
  BY <1>1, <1>2, <1>3, <1>7, Zenon DEF WriteFails, unVars, BootTypeOK, WriterInv, ReaderInv
<1>8. CASE Written
  BY <1>1, <1>2, <1>3, <1>8, Zenon DEF Written, unVars, BootTypeOK, WriterInv, ReaderInv
<1>9. CASE FindHeader
  <2>1. mkVars' = mkVars /\ got' = got /\ mk = "done" /\ got = Nowhere
    BY <1>9, Zenon DEF FindHeader, ReaderInv
  <2>2. BootTypeOK'
    BY <1>9, <2>1, BootImageAssumption DEF FindHeader, BootTypeOK, mkVars, Header, Sections
  <2>3. un' # "off" /\ un' # "done" /\ (un' = "read" => pos' - prefix' = 0 /\ unread' = "header")
    BY <1>9, BootImageAssumption DEF FindHeader
  <2>4. ReadStart'["header"] = 0
    BY Zenon DEF ReadStart, StartsFrom
  <2>5. WriterInv'
    BY <1>2, <2>1, Zenon DEF WriterInv, mkVars
  <2>6. \A x \in Sections : ~(Passed[x] < Passed["header"])
    BY PassedSteps, Zenon
  <2>7. ReaderInv'
    BY <2>1, <2>3, <2>4, <2>6, Zenon DEF ReaderInv, mkVars, Nowhere
  <2> QED
    BY <2>2, <2>5, <2>7, Zenon
<1>10. CASE ReadSection
  <2>1. /\ unread \in Sections /\ unread' = Following[unread] /\ un = "read" /\ un' = "read"
        /\ mkVars' = mkVars /\ page' = page /\ prefix' = prefix
    BY <1>10, Zenon DEF ReadSection
  <2>2. ReadStart[unread] \in Nat /\ ReadItem(unread) \in Nat /\ SizeOf(hdr, unread) \in Nat
    BY <2>1, ItemTypes, StartSteps, Zenon
  <2>3. pos - prefix = ReadStart[unread] /\ pos \in Int /\ prefix \in Nat
    BY <2>1, Zenon DEF ReaderInv, BootTypeOK
  <2>4. pos' = pos + ReadItem(unread)
    <3>1. pos' = pos + SizeOf(hdr, unread)
            + (IF unread = "signature" THEN 0 ELSE ReadPadding(SizeOf(hdr, unread), page))
      BY <1>10, Zenon DEF ReadSection
    <3>2. (IF unread = "signature" THEN 0 ELSE ReadPadding(SizeOf(hdr, unread), page)) \in Int
      BY <2>2, DivMod DEF ReadPadding, BootTypeOK
    <3> QED
      BY <2>2, <2>3, <3>1, <3>2 DEF ReadItem
  <2>5. pos' - prefix' = ReadStart[unread'] /\ pos' \in Int
    BY <2>1, <2>2, <2>3, <2>4, StartSteps
  <2>6. /\ got' \in [Sections -> Nat \cup {Absent}] /\ got'[unread] = ReadStart[unread]
        /\ \A x \in Sections : x # unread => got'[x] = got[x]
    BY <1>10, <2>1, <2>2, <2>3, Zenon DEF ReadSection, BootTypeOK
  <2>7. BootTypeOK'
    BY <2>1, <2>5, <2>6, PassedSteps, SMTT(30) DEF BootTypeOK, mkVars
  <2>8. WriterInv'
    BY <1>2, <2>1, Zenon DEF WriterInv, mkVars
  <2>9. \A x \in Sections : Passed[x] < Passed[unread'] => got'[x] # Absent
    <3>1. \A x \in Sections : Passed[x] < Passed[unread'] =>
            x = unread \/ Passed[x] < Passed[unread]
      BY <2>1, PassedSteps, Zenon
    <3>2. ReadStart[unread] # Absent
      BY <2>2 DEF Absent
    <3> QED
      BY <2>1, <2>6, <3>1, <3>2, Zenon DEF ReaderInv
  <2>10. \A x \in Sections : got'[x] # Absent => got'[x] = ReadStart[x]
    BY <2>6, Zenon DEF ReaderInv
  <2>11. ReaderInv'
    BY <1>3, <2>1, <2>5, <2>9, <2>10, Zenon DEF ReaderInv, mkVars
  <2> QED
    BY <2>7, <2>8, <2>11, Zenon
<1>11. CASE ReadAll
  BY <1>1, <1>2, <1>3, <1>11, Zenon DEF ReadAll, mkVars, BootTypeOK, WriterInv, ReaderInv
<1> QED
  BY <1>4, <1>5, <1>6, <1>7, <1>8, <1>9, <1>10, <1>11, Zenon DEF BootNext

\* Where the two sums agree: in front of the device trees always, behind a
\* second stage if its padding is right.
LEMMA BootInvRoundTrip ==
  ASSUME BootInv
  PROVE  RoundTrip
<1>1. SUFFICES ASSUME NEW x \in Sections, got[x] # Absent, at[x] # Absent,
                      page = hdr.page_size,
                      x \in {"dt", "signature"} => SecondWellPadded
               PROVE  got[x] = at[x]
  BY Zenon DEF RoundTrip
<1>2. got[x] = ReadStart[x] /\ at[x] = WriteStart[x]
  BY <1>1, Zenon DEF BootInv, WriterInv, ReaderInv
<1>3. mk = "done" /\ todo = "end"
  BY <1>1, Zenon DEF BootInv, WriterInv, ReaderInv, Nowhere
<1>4. page \in Nat \ {0} /\ 0 % page = 0
  <2>1. page \in Nat \ {0}
    BY Zenon DEF BootInv, BootTypeOK
  <2> QED
    BY <2>1, DivModUnique, page * 0 + 0 = 0
<1>5. \A y \in Sections \ {"second", "signature"} : ReadItem(y) = WriteItem(y)
  <2>1. SUFFICES ASSUME NEW y \in Sections \ {"second", "signature"}
                 PROVE  ReadItem(y) = WriteItem(y)
    BY Zenon
  <2>2. CASE hdr.size[y] # Absent
    BY <1>1, <2>2, Zenon DEF ReadItem, WriteItem, PaddingAfter, PaddedAs, ReadPadding, WritePadding,
                      Sections
  <2>3. CASE hdr.size[y] = Absent /\ y # "header"
    <3>1. SizeOf(hdr, y) = 0
      BY <2>3, Zenon DEF SizeOf, Sections
    <3> QED
      BY <1>4, <2>3, <3>1 DEF ReadItem, WriteItem, ReadPadding, Sections
  <2>4. CASE hdr.size[y] = Absent /\ y = "header"
    BY <1>3, <2>4, Zenon DEF BootInv, WriterInv
  <2> QED
    BY <2>2, <2>3, <2>4, Zenon
<1>6. x \in {"dt", "signature"} => ReadItem("second") = WriteItem("second")
  <2>1. SUFFICES ASSUME SecondWellPadded
                 PROVE  ReadItem("second") = WriteItem("second")
    BY <1>1, Zenon
  <2>2. CASE hdr.size["second"] = Absent
    BY <1>4, <2>2 DEF ReadItem, WriteItem, ReadPadding, SizeOf
  <2>3. CASE hdr.size["second"] # Absent
    <3>1. at["second"] # Absent
      BY <1>3, <2>3, PassedSteps, Zenon DEF BootInv, WriterInv, Sections
    <3>2. WritePadding(hdr.page_size, SizeOf(hdr, "second"))
            = WritePadding(hdr.page_size, SizeOf(hdr, "ramdisk"))
      BY <2>1, <3>1, Zenon DEF SecondWellPadded
    <3> QED
      BY <1>1, <2>3, <3>2, Zenon
      DEF ReadItem, WriteItem, PaddingAfter, PaddedAs, ReadPadding, WritePadding
  <2> QED
    BY <2>2, <2>3, Zenon
<1>7. ReadStart[x] = WriteStart[x]
  BY <1>5, <1>6 DEF Sections, ReadStart, WriteStart, StartsFrom
<1> QED
  BY <1>2, <1>7, Zenon

\* Taking an offset off and putting it back on leaves an address as it was.
LEMMA BootInvAddresses ==
  ASSUME BootInv
  PROVE  AddressesSurvive
<1> DEFINE A == AddrSpace
           ka == hdr.kernel_addr
           base == ReportedBase(hdr)
<1>1. A \in Nat \ {0} /\ KernelOffset \in Int /\ ka \in 0 .. A - 1
  BY BootImageAssumption DEF BootInv, BootTypeOK, Header
<1>2. ASSUME NEW addr \in 0 .. A - 1
      PROVE  addr % A = addr
  <2>1. addr \in Int /\ addr = A * 0 + addr /\ 0 \in Int
    BY <1>1, <1>2
  <2> QED
    BY <1>1, <1>2, <2>1, DivModUnique, Zenon
<1>3. LoadAddr(base, KernelOffset) = ka
  <2>1. ka - KernelOffset \in Int /\ (ka - KernelOffset) + KernelOffset = ka
    BY <1>1
  <2> QED
    BY <1>1, <1>2, <2>1, ModSum, Zenon DEF LoadAddr, ReportedBase
<1>4. ASSUME NEW addr \in 0 .. A - 1
      PROVE  LoadAddr(base, ReportedOffset(hdr, addr)) = addr
  <2> DEFINE y == addr - ka + KernelOffset
             z == ka - KernelOffset
  <2>1. y \in Int /\ z \in Int /\ y + z = addr
    BY <1>1, <1>4
  <2> HIDE DEF A, y, z
  <2>2. y % A \in Int
    BY <1>1, <2>1, DivMod
  <2>3. ((z % A) + (y % A)) % A = (z + (y % A)) % A
    BY <1>1, <2>1, <2>2, ModSum, Zenon
  <2>4. ((y % A) + z) % A = (y + z) % A
    BY <1>1, <2>1, ModSum, Zenon
  <2>5. z + (y % A) = (y % A) + z
    BY <2>1, <2>2
  <2>6. addr % A = addr
    BY <1>2, <1>4, Zenon DEF A
  <2> QED
    BY <2>1, <2>3, <2>4, <2>5, <2>6, Zenon DEF A, y, z, LoadAddr, ReportedBase, ReportedOffset
<1>5. \A addr \in {hdr.ramdisk_addr, hdr.second_addr, hdr.tags_addr} : addr \in 0 .. A - 1
  BY Zenon DEF BootInv, BootTypeOK, Header
<1> QED
  BY <1>3, <1>4, <1>5, Zenon DEF AddressesSurvive

-----------------------------------------------------------------------------
(* Proofs about the table of device trees.                                 *)

\* Whole pages add up to whole pages.
LEMMA PagesAdd ==
  ASSUME NEW x \in Nat, NEW y \in Nat, x % PageSize = 0, y % PageSize = 0
  PROVE  (x + y) % PageSize = 0
<1>1. PageSize \in Nat \ {0} /\ x \in Int /\ y \in Int /\ 0 + y = y
  BY DtbImageAssumption
<1>2. ((x % PageSize) + y) % PageSize = (x + y) % PageSize
  BY <1>1, ModSum, Zenon
<1> QED
  BY <1>1, <1>2, Zenon

\* A size is rounded up to whole pages.
LEMMA PageAlignFacts ==
  ASSUME NEW size \in Nat
  PROVE  PageAlign(size) \in Nat /\ size <= PageAlign(size) /\ PageAlign(size) % PageSize = 0
<1> DEFINE P == PageSize
           q == (size + P - 1) \div P
           r == (size + P - 1) % P
<1>1. P \in Nat \ {0} /\ size + P - 1 \in Int
  BY DtbImageAssumption
<1>2. q \in Int /\ r \in 0 .. P - 1 /\ size + P - 1 = P * q + r
  BY <1>1, DivMod, Zenon
<1>3. PageAlign(size) = q * P
  BY Zenon DEF PageAlign
<1> HIDE DEF P, q, r
<1>4. q * P \in Int /\ q * P = P * q + 0
  BY <1>1, <1>2
<1>5. size <= q * P
  BY <1>1, <1>2, <1>4
<1>6. (q * P) % P = 0
  BY <1>1, <1>2, <1>4, DivModUnique, 0 \in 0 .. P - 1, Zenon
<1> QED
  BY <1>3, <1>4, <1>5, <1>6 DEF P

\* The elements of a sequence over S are in S: the blobs are files.
LEMMA SeqElements ==
  ASSUME NEW S, NEW q \in Seq(S), NEW k \in 1 .. Len(q)
  PROVE  q[k] \in S
OBVIOUS

\* What a blob takes up.
LEMMA BlobSizes ==
  ASSUME DtbTypeOK, NEW b \in 1 .. Len(blobs)
  PROVE  /\ blobs[b].size \in Nat \ {0} /\ PageAlign(blobs[b].size) \in Nat
         /\ blobs[b].size <= PageAlign(blobs[b].size)
         /\ PageAlign(blobs[b].size) % PageSize = 0
<1>1. blobs[b] \in FileType
  BY SeqElements, Zenon DEF DtbTypeOK
<1>2. blobs[b].size \in Nat \ {0}
  BY <1>1, Zenon DEF FileType
<1> QED
  BY <1>2, PageAlignFacts, Zenon

\* The blobs start on the first page boundary behind the table.
LEMMA FirstBlobFacts ==
  ASSUME DtbTypeOK
  PROVE  /\ FirstBlob \in Nat /\ FirstBlob % PageSize = 0
         /\ HeaderSize + Len(blobs) * EntrySize < FirstBlob
         /\ \A x \in Nat : x % PageSize = 0 /\ HeaderSize + Len(blobs) * EntrySize < x
                             => FirstBlob <= x
<1> DEFINE P == PageSize
           offset == HeaderSize + Len(blobs) * EntrySize
           q == offset \div P
           r == offset % P
<1>1. P \in Nat \ {0} /\ offset \in Nat
  BY DtbImageAssumption DEF DtbTypeOK
<1>2. q \in Int /\ r \in 0 .. P - 1 /\ offset = P * q + r
  BY <1>1, offset \in Int, DivMod, Zenon
<1>3. FirstBlob = offset + P - r
  BY Zenon DEF FirstBlob
<1> HIDE DEF P, q, r, offset
<1>4. P * (q + 1) = P * q + P
  BY <1>1, <1>2
<1>5. FirstBlob = P * (q + 1) + 0 /\ offset < FirstBlob
  BY <1>1, <1>2, <1>3, <1>4
<1>6. FirstBlob \in Int /\ q + 1 \in Int
  BY <1>1, <1>2, <1>3
<1>7. FirstBlob % P = 0
  BY <1>1, <1>5, <1>6, DivModUnique, 0 \in 0 .. P - 1, Zenon
<1>8. ASSUME NEW x \in Nat, x % P = 0, offset < x
      PROVE  FirstBlob <= x
  <2>1. PICK k \in Int : x = P * k
    <3>1. x \div P \in Int /\ x = P * (x \div P) + (x % P)
      BY <1>1, x \in Int, DivMod, Zenon
    <3>2. x = P * (x \div P)
      BY <1>1, <1>8, <3>1
    <3> QED
      BY <3>1, <3>2, Zenon
  <2>2. k > q
    <3>1. SUFFICES ASSUME k <= q PROVE FALSE
      BY <1>2, <2>1
    <3>2. q - k \in Nat
      BY <1>2, <2>1, <3>1
    <3>3. P * (q - k) >= 0 /\ P * (q - k) = P * q - P * k
      BY <1>1, <1>2, <2>1, <3>2
    <3> QED
      BY <1>1, <1>2, <1>8, <2>1, <3>3
  <2>3. k - (q + 1) \in Nat
    BY <1>2, <2>1, <2>2
  <2>4. P * (k - (q + 1)) >= 0 /\ P * (k - (q + 1)) = P * k - P * (q + 1)
    BY <1>1, <1>6, <2>1, <2>3
  <2>5. P * k \in Int /\ P * (q + 1) \in Int
    BY <1>1, <1>6, <2>1
  <2> QED
    BY <1>5, <1>6, <2>1, <2>4, <2>5
<1> QED
  BY <1>1, <1>5, <1>6, <1>7, <1>8 DEF P, offset

\* A nonempty set of natural numbers has a least element.
LEMMA LeastElement ==
  ASSUME NEW T \in SUBSET Nat, T # {}
  PROVE  \E n \in T : \A m \in T : n <= m
<1>1. PICK n \in T : \A m \in T : ~(<<m, n>> \in OpToRel(<, Nat))
  BY NatLessThanWellFounded, WFMin, Zenon
<1>2. ASSUME NEW m \in T, m < n
      PROVE  FALSE
  <2>1. <<m, n>> \in Nat \X Nat /\ <<m, n>>[1] < <<m, n>>[2]
    BY <1>2, Zenon
  <2>2. <<m, n>> \in OpToRel(<, Nat)
    BY <2>1, Zenon DEF OpToRel
  <2> QED
    BY <1>1, <2>2, Zenon
<1> QED
  BY <1>2

\* Laying the blobs out one after the other puts each behind the sum of those
\* in front of it.
LEMMA LayoutIsSums ==
  ASSUME DtbTypeOK, NEW start, Sums(start), NEW first \in Nat
  PROVE  Layout(first) = [b \in 1 .. Len(blobs) |-> first + start[b]]
<1> DEFINE w == [b \in 1 .. Len(blobs) |-> first + start[b]]
           f == Layout(first)
           step(g) == [b \in DOMAIN blobs |->
                         IF b = 1 THEN first ELSE g[b - 1] + PageAlign(blobs[b - 1].size)]
<1>1. DOMAIN blobs = 1 .. Len(blobs) /\ Len(blobs) \in Nat
  BY DEF DtbTypeOK
<1>2. ASSUME NEW b \in 1 .. Len(blobs)
      PROVE  PageAlign(blobs[b].size) \in Nat /\ start[b] \in Nat
  <2>1. start[b] \in Nat
    BY <1>1 DEF Sums
  <2> QED
    BY <2>1, BlobSizes, Zenon
<1>3. w = step(w)
  <2>1. ASSUME NEW b \in 1 .. Len(blobs)
        PROVE  first + start[b]
                 = IF b = 1 THEN first ELSE w[b - 1] + PageAlign(blobs[b - 1].size)
    <3>1. CASE b = 1
      BY <3>1 DEF Sums
    <3>2. CASE b # 1
      <4>1. b - 1 \in 1 .. Len(blobs) /\ (b - 1) + 1 = b
        BY <1>1, <3>2
      <4>2. start[b] = start[b - 1] + PageAlign(blobs[b - 1].size)
        BY <4>1, Zenon DEF Sums
      <4>3. w[b - 1] = first + start[b - 1]
        BY <4>1, Zenon
      <4>4. PageAlign(blobs[b - 1].size) \in Nat /\ start[b - 1] \in Nat
        BY <1>2, <4>1, Zenon
      <4> HIDE DEF w
      <4> QED
        BY <3>2, <4>2, <4>3, <4>4
    <3> QED
      BY <3>1, <3>2, Zenon
  <2> QED
    BY <1>1, <2>1, Zenon
<1>4. f = step(f)
  BY <1>3, Zenon DEF Layout
<1> HIDE DEF f
<1>5. \A b \in 1 .. Len(blobs) : f[b] = first + start[b]
  <2> DEFINE T == {b \in 1 .. Len(blobs) : f[b] # first + start[b]}
  <2>1. SUFFICES ASSUME T # {} PROVE FALSE
    BY Zenon
  <2>2. PICK b \in T : \A c \in T : b <= c
    <3>1. T \in SUBSET Nat
      BY <1>1
    <3> HIDE DEF T
    <3> QED
      BY <2>1, <3>1, LeastElement, Zenon
  <2>3. b \in 1 .. Len(blobs) /\ f[b] # first + start[b]
    BY <2>2, Zenon
  <2>4. f[b] = IF b = 1 THEN first ELSE f[b - 1] + PageAlign(blobs[b - 1].size)
    BY <1>1, <1>4, <2>3, Zenon
  <2>5. b # 1
    BY <2>3, <2>4 DEF Sums
  <2>6. b - 1 \in 1 .. Len(blobs) /\ (b - 1) + 1 = b /\ b - 1 \notin T
    BY <1>1, <2>2, <2>3, <2>5
  <2>7. f[b - 1] = first + start[b - 1]
    BY <2>6, Zenon
  <2>8. start[b] = start[b - 1] + PageAlign(blobs[b - 1].size)
    BY <2>6, Zenon DEF Sums
  <2> QED
    BY <1>2, <2>3, <2>4, <2>5, <2>6, <2>7, <2>8
<1>6. f = [b \in 1 .. Len(blobs) |-> f[b]]
  BY <1>1, <1>4, Zenon
<1> QED
  BY <1>5, <1>6, Zenon DEF f

\* Reading the directory: one more blob behind the others.
LEMMA ReadDirStep ==
  ASSUME DtbTypeOK, BlockInv, ReadDir
  PROVE  DtbTypeOK' /\ BlockInv'
<1> DEFINE h == Head(listing)
           n == Len(blobs)
<1>1. listing # <<>> /\ listing' = Tail(listing) /\ listing \in Seq(FileType)
      /\ pc = "dir" /\ placed = <<>> /\ placed' = <<>> /\ entries = <<>> /\ entries' = <<>>
  BY Zenon DEF ReadDir, DtbTypeOK, BlockInv
<1>2. h \in FileType /\ listing' \in Seq(FileType)
  BY <1>1
<1>3. h.kind \in {"dtb", "other", "unreadable"} /\ h.size \in Nat
  BY <1>2, Zenon DEF FileType
<1>4. PICK start : Sums(start)
  BY Zenon DEF BlockInv
<1>5. CASE h.kind # "dtb"
  <2>1. UNCHANGED <<blobs, hdr_sz, blob_sz, i>> /\ pc' \in {"dir", "failed"}
    BY <1>1, <1>3, <1>5, Zenon DEF ReadDir
  <2>2. DtbTypeOK'
    BY <1>2, <2>1, Zenon DEF DtbTypeOK
  <2>3. Sums(start)'
    BY <1>4, <2>1, Zenon DEF Sums, PageAlign
  <2>4. pc' = "dir" => hdr_sz' >= HeaderSize + Len(blobs') * EntrySize
    BY <1>1, <2>1, Zenon DEF BlockInv
  <2> QED
    BY <1>1, <2>2, <2>3, <2>4, Zenon DEF BlockInv
<1>6. CASE h.kind = "dtb"
  <2>1. /\ blobs' = Append(blobs, h) /\ blob_sz' = blob_sz + PageAlign(h.size)
        /\ hdr_sz' = hdr_sz + Len(blobs') * EntrySize /\ pc' = "dir" /\ i' = i
    BY <1>1, <1>6, Zenon DEF ReadDir
  <2>2. PageAlign(h.size) \in Nat /\ PageAlign(h.size) % PageSize = 0
    BY <1>3, PageAlignFacts, Zenon
  <2>3. blobs \in Seq(FileType) /\ n \in Nat /\ hdr_sz \in Nat /\ blob_sz \in Nat
    BY DEF DtbTypeOK
  <2>4. /\ blobs' \in Seq(FileType) /\ Len(blobs') = n + 1 /\ blobs'[n + 1] = h
        /\ \A b \in 1 .. n : blobs'[b] = blobs[b]
    BY <1>2, <2>1, <2>3
  <2>5. EntrySize \in Nat /\ HeaderSize \in Nat
    BY DtbImageAssumption, Zenon
  <2>6. hdr_sz >= HeaderSize + n * EntrySize
    BY <1>1, Zenon DEF BlockInv
  <2>7. (n + 1) * EntrySize \in Nat /\ n * EntrySize \in Nat
    BY <2>3, <2>5
  <2>8. hdr_sz' = hdr_sz + (n + 1) * EntrySize
    BY <2>1, <2>4, Zenon
  <2>9. hdr_sz' \in Nat /\ hdr_sz' >= HeaderSize + Len(blobs') * EntrySize
    BY <2>3, <2>4, <2>5, <2>6, <2>7, <2>8
  <2>10. DtbTypeOK'
    BY <1>2, <2>1, <2>2, <2>3, <2>4, <2>9 DEF DtbTypeOK
  <2>11. PICK next : next = [b \in 1 .. n + 2 |-> IF b = n + 2 THEN blob_sz' ELSE start[b]]
    BY Zenon
  <2>12. Sums(next)'
    <3>1. /\ start \in [1 .. n + 1 -> Nat] /\ start[1] = 0 /\ start[n + 1] = blob_sz
          /\ \A b \in 1 .. n : start[b + 1] = start[b] + PageAlign(blobs[b].size)
          /\ \A b \in 1 .. n, c \in 1 .. n + 1 :
               b < c => start[b] + PageAlign(blobs[b].size) <= start[c]
          /\ \A b \in 1 .. n + 1 : start[b] % PageSize = 0
      BY <1>4, Zenon DEF Sums
    <3>2. blob_sz' \in Nat
      BY <2>1, <2>2, <2>3
    <3>3. \A b \in 1 .. n + 1 : next[b] = start[b]
      BY <2>3, <2>11
    <3>4. next[n + 2] = blob_sz' /\ next \in [1 .. n + 2 -> Nat]
      BY <2>3, <2>11, <3>1, <3>2
    <3>5. \A b \in 1 .. n : PageAlign(blobs[b].size) \in Nat
      BY BlobSizes, Zenon
    <3>6. \A b \in 1 .. n + 1 : next[b + 1] = next[b] + PageAlign(blobs'[b].size)
      <4>1. ASSUME NEW b \in 1 .. n + 1
            PROVE  next[b + 1] = next[b] + PageAlign(blobs'[b].size)
        <5>1. CASE b = n + 1
          <6>1. next[b] = blob_sz /\ next[b + 1] = blob_sz + PageAlign(h.size)
            BY <2>1, <2>3, <3>1, <3>3, <3>4, <5>1
          <6>2. PageAlign(blobs'[b].size) = PageAlign(h.size)
            BY <2>4, <5>1, Zenon
          <6> QED
            BY <6>1, <6>2, Zenon
        <5>2. CASE b # n + 1
          <6>1. b \in 1 .. n /\ b + 1 \in 1 .. n + 1
            BY <2>3, <5>2
          <6> QED
            BY <2>4, <3>1, <3>3, <6>1, Zenon
        <5> QED
          BY <5>1, <5>2, Zenon
      <4> QED
        BY <4>1, Zenon
    <3>7. \A b \in 1 .. n + 1, c \in 1 .. n + 2 :
            b < c => next[b] + PageAlign(blobs'[b].size) <= next[c]
      <4>1. ASSUME NEW b \in 1 .. n + 1, NEW c \in 1 .. n + 2, b < c
            PROVE  next[b] + PageAlign(blobs'[b].size) <= next[c]
        <5>1. CASE c # n + 2
          <6>1. b \in 1 .. n /\ c \in 1 .. n + 1
            BY <2>3, <4>1, <5>1
          <6> QED
            BY <2>4, <3>1, <3>3, <4>1, <6>1, Zenon
        <5>2. CASE c = n + 2 /\ b = n + 1
          <6>1. next[b] = blob_sz /\ next[c] = blob_sz + PageAlign(h.size)
            BY <2>1, <2>3, <3>1, <3>3, <3>4, <5>2, Zenon
          <6>2. PageAlign(blobs'[b].size) = PageAlign(h.size)
            BY <2>4, <5>2, Zenon
          <6> QED
            BY <2>2, <2>3, <6>1, <6>2
        <5>3. CASE c = n + 2 /\ b # n + 1
          <6>1. b \in 1 .. n /\ n + 1 \in 1 .. n + 1 /\ b < n + 1
            BY <2>3, <5>3
          <6>2. start[b] + PageAlign(blobs[b].size) <= blob_sz
            BY <3>1, <6>1, Zenon
          <6>3. next[b] = start[b] /\ start[b] \in Nat /\ PageAlign(blobs[b].size) \in Nat
            BY <3>1, <3>3, <3>5, <6>1, Zenon
          <6> QED
            BY <2>1, <2>2, <2>3, <2>4, <3>4, <5>3, <6>1, <6>2, <6>3, SMTT(30)
        <5> QED
          BY <5>1, <5>2, <5>3, Zenon
      <4> QED
        BY <4>1, Zenon
    <3>8. \A b \in 1 .. n + 2 : next[b] % PageSize = 0
      <4>1. blob_sz' % PageSize = 0
        <5>1. blob_sz % PageSize = 0
          BY <2>3, <3>1
        <5> QED
          BY <2>1, <2>2, <2>3, <5>1, PagesAdd, Zenon
      <4> QED
        BY <2>3, <3>1, <3>3, <3>4, <4>1
    <3>9. next[1] = 0
      BY <2>3, <3>1, <3>3
    <3>10. n + 1 + 1 = n + 2
      BY <2>3
    <3> QED
      BY <2>4, <3>4, <3>6, <3>7, <3>8, <3>9, <3>10, Zenon DEF Sums, PageAlign
  <2> QED
    BY <1>1, <2>9, <2>10, <2>12, Zenon DEF BlockInv
<1> QED
  BY <1>5, <1>6, Zenon

\* What is left alone: the block stays as it has been built.
LEMMA BlockKept ==
  ASSUME BlockInv, UNCHANGED buildVars, pc' = "dir" => pc = "dir"
  PROVE  BlockInv'
<1>1. PICK start : Sums(start) /\ (placed # <<>> => LaidOut(start))
  BY Zenon DEF BlockInv
<1>2. Sums(start)'
  BY <1>1, Zenon DEF Sums, PageAlign, buildVars
<1>3. LaidOut(start) => LaidOut(start)'
  BY Zenon DEF LaidOut, PageAlign, FirstBlob, buildVars
<1> QED
  BY <1>1, <1>2, <1>3, Zenon DEF BlockInv, buildVars

\* Sorting the entries, computing the offsets and copying the blobs.
LEMMA BuildStep ==
  ASSUME DtbTypeOK, BlockInv, Build
  PROVE  DtbTypeOK' /\ BlockInv'
<1> DEFINE n == Len(blobs)
           size == hdr_sz + WordSize
<1>1. /\ blobs' = blobs /\ blob_sz' = blob_sz /\ listing' = listing /\ i' = i /\ pc' = "built"
      /\ hdr_sz' = PageAlign(size) /\ placed' = Layout(FirstBlob)
  BY Zenon DEF Build
<1>2. blobs \in Seq(FileType) /\ n \in Nat /\ DOMAIN blobs = 1 .. n
  BY SMTT(30) DEF DtbTypeOK
<1>3. PICK start : Sums(start)
  BY Zenon DEF BlockInv
<1>4. size \in Nat /\ HeaderSize + n * EntrySize < size
  BY <1>2, DtbImageAssumption DEF DtbTypeOK, BlockInv, Build
<1>5. hdr_sz' \in Nat /\ size <= hdr_sz' /\ hdr_sz' % PageSize = 0
  BY <1>1, <1>4, PageAlignFacts, Zenon
<1>6. FirstBlob \in Nat /\ FirstBlob <= hdr_sz'
  <2>1. HeaderSize + n * EntrySize \in Nat
    BY <1>2, DtbImageAssumption
  <2>2. HeaderSize + n * EntrySize < hdr_sz'
    BY <1>4, <1>5, <2>1
  <2> QED
    BY <1>5, <2>2, FirstBlobFacts, Zenon
<1>7. DtbTypeOK'
  BY <1>1, <1>5, Zenon DEF DtbTypeOK
<1>8. Sums(start)'
  BY <1>1, <1>3, Zenon DEF Sums, PageAlign
<1>9. \A b \in 1 .. n : start[b] \in Nat
  BY <1>2, <1>3 DEF Sums
<1>10. placed' = [b \in 1 .. n |-> FirstBlob + start[b]]
  BY <1>1, <1>3, <1>6, LayoutIsSums, Zenon
<1>11. PICK order \in [1 .. n -> 1 .. n] :
         entries' = [k \in DOMAIN order |->
                       [blob |-> order[k], offset |-> OffsetOf(order, k),
                        size |-> PageAlign(blobs[order[k]].size)]]
  <2>1. PICK order \in SortedEntries :
          entries' = [k \in DOMAIN order |->
                        [blob |-> order[k], offset |-> OffsetOf(order, k),
                         size |-> PageAlign(blobs[order[k]].size)]]
    BY Zenon DEF Build
  <2>2. order \in [1 .. n -> 1 .. n]
    BY <1>2, Zenon DEF SortedEntries, Bijection, Injection
  <2> QED
    BY <2>1, <2>2, Zenon
<1>12. \A k \in 1 .. n : OffsetOf(order, k) = hdr_sz' + start[order[k]]
  <2>1. Layout(hdr_sz') = [b \in 1 .. n |-> hdr_sz' + start[b]]
    <3>1. PICK first \in Nat : first = hdr_sz'
      BY <1>5, Zenon
    <3> QED
      BY <1>3, <3>1, LayoutIsSums, Zenon
  <2> QED
    BY <1>1, <2>1, Zenon DEF OffsetOf
<1>13. \A k \in 1 .. n :
         /\ entries'[k] = [blob |-> order[k], offset |-> hdr_sz' + start[order[k]],
                           size |-> PageAlign(blobs[order[k]].size)]
         /\ order[k] \in 1 .. n
  BY <1>11, <1>12, Zenon
<1>14. \A k \in 1 .. n : entries'[k] \in [blob : 1 .. n, offset : Nat, size : Nat]
  <2>1. SUFFICES ASSUME NEW k \in 1 .. n
                 PROVE  entries'[k] \in [blob : 1 .. n, offset : Nat, size : Nat]
    BY Zenon
  <2>2. order[k] \in 1 .. n
    BY <1>13, Zenon
  <2>3. hdr_sz' + start[order[k]] \in Nat /\ PageAlign(blobs[order[k]].size) \in Nat
    BY <1>5, <1>9, <2>2, BlobSizes
  <2>4. entries'[k] = [blob |-> order[k], offset |-> hdr_sz' + start[order[k]],
                       size |-> PageAlign(blobs[order[k]].size)]
    BY <1>13, Zenon
  <2> QED
    BY <2>2, <2>3, <2>4
<1>15. entries' \in [1 .. n -> [blob : 1 .. n, offset : Nat, size : Nat]]
  <2>1. DOMAIN entries' = 1 .. n /\ entries' = [k \in 1 .. n |-> entries'[k]]
    BY <1>11, Zenon
  <2> QED
    BY <1>14, <2>1, Zenon
<1>16. LaidOut(start)'
  <2>1. FirstBlob' = FirstBlob
    BY <1>1, Zenon DEF FirstBlob
  <2>2. placed' \in [1 .. n -> Nat] /\ \A b \in 1 .. n : placed'[b] = FirstBlob + start[b]
    BY <1>6, <1>9, <1>10
  <2>3. \A k \in 1 .. n :
          /\ entries'[k].offset = hdr_sz' + start[entries'[k].blob]
          /\ entries'[k].size = PageAlign(blobs[entries'[k].blob].size)
    <3>1. SUFFICES ASSUME NEW k \in 1 .. n
                   PROVE  /\ entries'[k].offset = hdr_sz' + start[entries'[k].blob]
                          /\ entries'[k].size = PageAlign(blobs[entries'[k].blob].size)
      BY Zenon
    <3>2. entries'[k] = [blob |-> order[k], offset |-> hdr_sz' + start[order[k]],
                         size |-> PageAlign(blobs[order[k]].size)]
      BY <1>13, Zenon
    <3>3. /\ entries'[k].blob = order[k] /\ entries'[k].offset = hdr_sz' + start[order[k]]
          /\ entries'[k].size = PageAlign(blobs[order[k]].size)
      BY <3>2
    <3> QED
      BY <3>3, Zenon
  <2> QED
    BY <1>1, <1>6, <1>15, <2>1, <2>2, <2>3, Zenon DEF LaidOut, PageAlign
<1>17. placed' # <<>>
  <2>1. n >= 1
    BY <1>2 DEF Build
  <2>2. DOMAIN placed' # {} /\ DOMAIN <<>> = {}
    BY <1>2, <1>10, <2>1
  <2> QED
    BY <2>2, Zenon
<1> QED
  BY <1>1, <1>7, <1>8, <1>16, <1>17, Zenon DEF BlockInv

\* While the table fits, an entry points to its own blob.
LEMMA EntryFound ==
  ASSUME DtbTypeOK, BlockInv, TableFits, NEW n \in 1 .. Len(entries)
  PROVE  StoredAt(entries[n]) = entries[n].blob
<1> DEFINE e == entries[n]
           b == e.blob
<1>1. placed # <<>>
  BY DEF BlockInv
<1>2. PICK start : Sums(start) /\ LaidOut(start)
  BY <1>1, Zenon DEF BlockInv
<1>3. Len(blobs) \in Nat /\ hdr_sz \in Nat
  BY DEF DtbTypeOK
<1>4. Len(entries) = Len(blobs) /\ DOMAIN placed = 1 .. Len(blobs)
  BY <1>2, <1>3 DEF LaidOut
<1>5. b \in 1 .. Len(blobs) /\ e.offset = hdr_sz + start[b] /\ e.size = PageAlign(blobs[b].size)
  BY <1>2, <1>4, Zenon DEF LaidOut
<1>6. \A c \in 1 .. Len(blobs) : placed[c] = hdr_sz + start[c] /\ start[c] \in Nat
  BY <1>2, <1>3 DEF LaidOut, Sums, TableFits
<1>7. ASSUME NEW c \in 1 .. Len(blobs), NEW d \in 1 .. Len(blobs), c < d
      PROVE  start[c] < start[d]
  <2>1. start[c] + PageAlign(blobs[c].size) <= start[d]
    BY <1>2, <1>3, <1>7 DEF Sums
  <2>2. PageAlign(blobs[c].size) \in Nat \ {0}
    BY BlobSizes
  <2> QED
    BY <1>6, <2>1, <2>2
<1> HIDE DEF e, b
<1>8. \A c \in 1 .. Len(blobs) : placed[c] = e.offset => c = b
  <2>1. SUFFICES ASSUME NEW c \in 1 .. Len(blobs), placed[c] = e.offset, c # b
                 PROVE  FALSE
    BY Zenon
  <2>2. start[c] = start[b]
    BY <1>3, <1>5, <1>6, <2>1
  <2>3. c < b \/ b < c
    BY <1>3, <1>5, <2>1
  <2> QED
    BY <1>5, <1>6, <1>7, <2>2, <2>3
<1>9. placed[b] = e.offset
  BY <1>5, <1>6, Zenon
<1> QED
  BY <1>4, <1>5, <1>8, <1>9, Zenon DEF StoredAt, e, b

\* Unpacking one entry.  A dump that is overwritten later, or that could not be
\* written, is not promised.
LEMMA ReadEntryStep ==
  ASSUME DtbTypeOK, BlockInv, DumpInv, ReadEntry
  PROVE  DtbTypeOK' /\ BlockInv' /\ DumpInv'
<1> DEFINE Name(n) == DumpName(entries[n].blob)
<1>1. /\ pc = "reading" /\ pc' = pc /\ i <= Len(entries) /\ i' = i + 1 /\ i \in Nat \ {0}
      /\ UNCHANGED buildVars
  BY Zenon DEF ReadEntry, DtbTypeOK
<1>2. DtbTypeOK'
  BY <1>1 DEF DtbTypeOK, buildVars
<1>3. BlockInv'
  BY <1>1, BlockKept, Zenon
<1>4. Len(entries) \in Nat
  <2>1. CASE placed = <<>>
    BY <2>1 DEF BlockInv
  <2>2. CASE placed # <<>>
    BY <2>2 DEF BlockInv, LaidOut, DtbTypeOK
  <2> QED
    BY <2>1, <2>2, Zenon
<1>5. i' <= Len(entries') + 1
  BY <1>1, <1>4 DEF buildVars
<1>6. TableFits' = TableFits /\ entries' = entries /\ blobs' = blobs
  BY <1>1, Zenon DEF TableFits, FirstBlob, buildVars
<1>7. \/ dumps' = Dump(Name(i), StoredAt(entries[i])) /\ refused' = refused
      \/ dumps' \in {dumps, Dump(Name(i), 0)} /\ refused' = refused \cup {Name(i)}
  BY Zenon DEF ReadEntry
<1>8. ASSUME TableFits, NEW n \in 1 .. i, Name(n) \notin refused',
             \A m \in n + 1 .. i : Name(m) # Name(n)
      PROVE  Name(n) \in DOMAIN dumps' /\ dumps'[Name(n)] = entries[n].blob
  <2>1. CASE n = i
    <3>1. dumps' = Dump(Name(i), StoredAt(entries[i]))
      BY <1>7, <1>8, <2>1, Zenon
    <3>2. StoredAt(entries[i]) = entries[i].blob
      BY <1>1, <1>4, <1>8, EntryFound
    <3> QED
      BY <2>1, <3>1, <3>2, Zenon DEF Dump
  <2>2. CASE n # i
    <3>1. n \in 1 .. i - 1 /\ i \in n + 1 .. i
      BY <1>1, <2>2
    <3>2. Name(i) # Name(n) /\ \A m \in n + 1 .. i - 1 : Name(m) # Name(n)
      BY <1>1, <1>8, <3>1
    <3>3. Name(n) \notin refused
      BY <1>7, <1>8, Zenon
    <3>4. Name(n) \in DOMAIN dumps /\ dumps[Name(n)] = entries[n].blob
      BY <1>8, <3>1, <3>2, <3>3, Zenon DEF DumpInv
    <3>5. ASSUME NEW content, dumps' = Dump(Name(i), content)
          PROVE  Name(n) \in DOMAIN dumps' /\ dumps'[Name(n)] = dumps[Name(n)]
      BY <3>2, <3>4, <3>5, Zenon DEF Dump
    <3> QED
      BY <1>7, <3>4, <3>5, Zenon
  <2> QED
    BY <2>1, <2>2, Zenon
<1>9. i' - 1 = i
  BY <1>1
<1>10. \A n : Name(n)' = Name(n)
  BY <1>6, Zenon DEF DumpName
<1>11. DumpInv'
  BY <1>1, <1>5, <1>6, <1>8, <1>9, <1>10 DEF DumpInv
<1> QED
  BY <1>2, <1>3, <1>11, Zenon

\* The block has room for every blob, also where the table needs less than has
\* been reserved for it.
LEMMA BlockRoom ==
  ASSUME DtbTypeOK, BlockInv
  PROVE  /\ BlobsInsideBlock
         /\ \A b \in DOMAIN placed : placed[b] + PageAlign(blobs[b].size) <= BlockSize
<1>1. CASE placed = <<>>
  BY <1>1 DEF BlobsInsideBlock, IsBuilt
<1>2. CASE placed # <<>>
  <2> DEFINE n == Len(blobs)
  <2>1. PICK start : Sums(start) /\ LaidOut(start)
    BY <1>2, Zenon DEF BlockInv
  <2>2. n \in Nat /\ hdr_sz \in Nat /\ blob_sz \in Nat
    BY DEF DtbTypeOK
  <2>3. Len(entries) = n /\ DOMAIN placed = 1 .. n /\ FirstBlob <= hdr_sz
    BY <2>1, <2>2 DEF LaidOut
  <2>4. ASSUME NEW b \in 1 .. n
        PROVE  /\ placed[b] = FirstBlob + start[b] /\ start[b] \in Nat
               /\ start[b] + PageAlign(blobs[b].size) <= blob_sz
               /\ start[b] % PageSize = 0
    <3>1. b \in 1 .. n + 1 /\ n + 1 \in 1 .. n + 1 /\ b < n + 1
      BY <2>2
    <3> QED
      BY <2>1, <3>1, Zenon DEF LaidOut, Sums
  <2>5. ASSUME NEW b \in 1 .. n
        PROVE  /\ blobs[b].size \in Nat /\ PageAlign(blobs[b].size) \in Nat
               /\ blobs[b].size <= PageAlign(blobs[b].size)
    BY BlobSizes, Zenon
  <2>6. FirstBlob \in Nat /\ FirstBlob % PageSize = 0 /\ HeaderSize + n * EntrySize < FirstBlob
    BY FirstBlobFacts, Zenon
  <2>7. HeaderSize + n * EntrySize \in Nat
    BY <2>2, DtbImageAssumption
  <2>8. ASSUME NEW b \in 1 .. n
        PROVE  placed[b] + PageAlign(blobs[b].size) <= hdr_sz + blob_sz
    <3>1. /\ placed[b] = FirstBlob + start[b] /\ start[b] \in Nat
          /\ start[b] + PageAlign(blobs[b].size) <= blob_sz
      BY <2>4, Zenon
    <3>2. FirstBlob \in Nat /\ PageAlign(blobs[b].size) \in Nat
      BY <2>5, <2>6, Zenon
    <3> QED
      BY <2>2, <2>3, <3>1, <3>2
  <2>9. ASSUME NEW b \in 1 .. n
        PROVE  /\ placed[b] >= HeaderSize + n * EntrySize
               /\ placed[b] % PageSize = 0
               /\ placed[b] + blobs[b].size <= hdr_sz + blob_sz
    <3>1. placed[b] >= HeaderSize + n * EntrySize
      BY <2>4, <2>6, <2>7
    <3>2. placed[b] % PageSize = 0
      <4>1. placed[b] = FirstBlob + start[b] /\ start[b] \in Nat /\ start[b] % PageSize = 0
        BY <2>4, Zenon
      <4>2. (FirstBlob + start[b]) % PageSize = 0
        BY <2>6, <4>1, PagesAdd, Zenon
      <4> QED
        BY <4>1, <4>2, Zenon
    <3>3. placed[b] \in Nat
      BY <2>4, <2>6
    <3> QED
      BY <2>2, <2>5, <2>8, <3>1, <3>2, <3>3
  <2>10. ASSUME NEW b \in 1 .. n, NEW c \in 1 .. n, b < c
         PROVE  placed[b] + blobs[b].size <= placed[c]
    <3>1. start[b] + PageAlign(blobs[b].size) <= start[c]
      BY <2>1, <2>2, <2>10 DEF Sums
    <3>2. /\ placed[b] = FirstBlob + start[b] /\ start[b] \in Nat
          /\ placed[c] = FirstBlob + start[c] /\ start[c] \in Nat
      BY <2>4, Zenon
    <3>3. /\ FirstBlob \in Nat /\ blobs[b].size \in Nat /\ PageAlign(blobs[b].size) \in Nat
          /\ blobs[b].size <= PageAlign(blobs[b].size)
      BY <2>5, <2>6, Zenon
    <3> QED
      BY <3>1, <3>2, <3>3, SMTT(30)
  <2>11. \A b, c \in 1 .. n : b # c => b < c \/ c < b
    BY <2>2
  <2>12. BlobsInsideBlock
    BY <2>3, <2>9, <2>10, <2>11, Zenon DEF BlobsInsideBlock
  <2> QED
    BY <2>3, <2>8, <2>12, Zenon DEF BlockSize
<1> QED
  BY <1>1, <1>2, Zenon

\* Of the entries with one name there is a last one, and its blob is what
\* remains under that name.
LEMMA IInvTrees ==
  ASSUME IInv
  PROVE  TreesSurvive
<1> DEFINE Name(n) == DumpName(entries[n].blob)
<1>1. pc = "garbage" => page # hdr.page_size \/ ~SecondWellPadded
  BY Zenon DEF IInv, SectionInv
<1>2. ASSUME pc = "done", TableFits, NEW n \in DOMAIN entries, Name(n) \notin refused
      PROVE  LET Same == {m \in DOMAIN entries : Name(m) = Name(n)}
                 last == CHOOSE m \in Same : \A k \in Same : k <= m
             IN dumps[Name(n)] = entries[last].blob
  <2> DEFINE L == Len(entries)
             Same == {m \in DOMAIN entries : Name(m) = Name(n)}
             last == CHOOSE m \in Same : \A k \in Same : k <= m
  <2>1. L \in Nat /\ DOMAIN entries = 1 .. L
    <3>1. CASE placed = <<>>
      BY <3>1 DEF IInv, BlockInv
    <3>2. CASE placed # <<>>
      BY <3>2, SMTT(30) DEF IInv, BlockInv, LaidOut, DtbTypeOK
    <3> QED
      BY <3>1, <3>2, Zenon
  <2>2. \E m \in Same : \A k \in Same : k <= m
    <3> DEFINE T == {L - m : m \in Same}
    <3>1. T \in SUBSET Nat /\ T # {}
      BY <1>2, <2>1
    <3> HIDE DEF T
    <3>2. PICK t \in T : \A u \in T : t <= u
      BY <3>1, LeastElement, Zenon
    <3>3. PICK m \in Same : t = L - m
      BY <3>2, Zenon DEF T
    <3>4. \A k \in Same : L - m <= L - k
      BY <3>2, <3>3, Zenon DEF T
    <3>5. \A k \in Same : k \in Nat
      BY <2>1
    <3> QED
      BY <2>1, <3>3, <3>4, <3>5
  <2>3. last \in Same /\ \A k \in Same : k <= last
    BY <2>2, Zenon
  <2> HIDE DEF last
  <2>4. last \in 1 .. L /\ Name(last) = Name(n)
    BY <2>1, <2>3, Zenon
  <2>5. \A m \in last + 1 .. L : Name(m) # Name(last)
    <3>1. SUFFICES ASSUME NEW m \in last + 1 .. L, Name(m) = Name(last) PROVE FALSE
      BY Zenon
    <3>2. m \in 1 .. L /\ m > last
      BY <2>1, <2>4
    <3>3. m \in Same
      BY <2>1, <2>4, <3>1, <3>2, Zenon
    <3>4. m <= last
      BY <2>3, <3>3, Zenon
    <3> QED
      BY <2>1, <2>4, <3>2, <3>4
  <2>6. i - 1 = L
    BY <1>2, <2>1 DEF IInv, DumpInv
  <2>7. dumps[Name(last)] = entries[last].blob
    BY <1>2, <2>4, <2>5, <2>6, Zenon DEF IInv, DumpInv
  <2> QED
    BY <2>4, <2>7, Zenon DEF last
<1> QED
  BY <1>1, <1>2, Zenon DEF TreesSurvive

-----------------------------------------------------------------------------
(* The tools together.                                                     *)

\* Before anything runs.
LEMMA InitIInv ==
  ASSUME Init
  PROVE  IInv
<1> USE DEF Init, BootInit, DtbInit
<1>1. BootInv
  <2>1. NoHeader \in Header
    BY BootImageAssumption DEF NoHeader, Header, Sections, Absent
  <2>2. BootTypeOK
    BY <2>1 DEF BootTypeOK, Nowhere, Absent
  <2> QED
    BY <2>2, Zenon DEF BootInv, WriterInv, ReaderInv, Nowhere
<1>2. DtbTypeOK
  BY DtbImageAssumption DEF DtbTypeOK
<1>3. BlockInv
  <2>1. Sums([b \in 1 .. 1 |-> 0])
    <3>1. PageSize \in Nat \ {0} /\ 0 = PageSize * 0 + 0 /\ 0 \in 0 .. PageSize - 1 /\ 0 \in Int
      BY DtbImageAssumption
    <3>2. 0 % PageSize = 0
      BY <3>1, DivModUnique, Zenon
    <3>3. Len(blobs) = 0
      BY Zenon
    <3> QED
      BY <3>2, <3>3 DEF Sums
  <2>2. hdr_sz >= HeaderSize + Len(blobs) * EntrySize
    BY DtbImageAssumption, SMTT(30)
  <2> QED
    BY <2>1, <2>2, Zenon DEF BlockInv
<1>4. DumpInv /\ SectionInv
  BY DEF DumpInv, SectionInv
<1> QED
  BY <1>1, <1>2, <1>3, <1>4, Zenon DEF IInv

\* A step of the table's programs leaves the boot image alone.
LEMMA BootKept ==
  ASSUME BootInv, UNCHANGED bootVars
  PROVE  BootInv'
<1> USE DEF bootVars, mkVars, unVars
<1>1. WriteStart' = WriteStart
  BY DEF WriteStart, StartsFrom, WriteItem, SizeOf, PaddingAfter
<1>2. ReadStart' = ReadStart
  BY Zenon DEF ReadStart, StartsFrom, ReadItem, SizeOf
<1>3. BootTypeOK'
  BY Zenon DEF BootInv, BootTypeOK
<1>4. WriterInv' /\ ReaderInv'
  BY <1>1, <1>2, Zenon DEF BootInv, WriterInv, ReaderInv
<1> QED
  BY <1>3, <1>4, Zenon DEF BootInv

\* Before unpackdtbhimg starts there is nothing to say about its dumps.
LEMMA NothingDumped ==
  ASSUME DtbTypeOK', BlockInv', i' = 1, pc' # "done"
  PROVE  DumpInv'
<1>1. Len(entries') \in Nat
  <2>1. CASE placed' = <<>>
    BY <2>1 DEF BlockInv
  <2>2. CASE placed' # <<>>
    BY <2>2 DEF BlockInv, LaidOut, DtbTypeOK
  <2> QED
    BY <2>1, <2>2, Zenon
<1> QED
  BY <1>1 DEF DumpInv

\* A step of the boot image's programs leaves the table alone.
LEMMA DtbKept ==
  ASSUME DtbTypeOK, BlockInv, DumpInv, UNCHANGED dtbVars
  PROVE  DtbTypeOK' /\ BlockInv' /\ DumpInv'
<1> USE DEF dtbVars
<1>1. DtbTypeOK'
  BY Zenon DEF DtbTypeOK
<1>2. BlockInv'
  BY BlockKept, Zenon DEF buildVars
<1>3. DumpInv'
  BY Zenon DEF DumpInv, DumpName, TableFits, FirstBlob
<1> QED
  BY <1>1, <1>2, <1>3, Zenon

\* What unpackbootimg cuts out is the whole block, unless the page size or the
\* padding behind a second stage was wrong.
LEMMA SectionCutOut ==
  ASSUME IInv, tool = "mkbootimg_dt_dir", un = "done", page = hdr.page_size, SecondWellPadded
  PROVE  BlockInFile
<1>1. mk = "done" /\ todo = "end" /\ unread = "end"
  BY Zenon DEF IInv, BootInv, ReaderInv, WriterInv
<1>2. hdr.size["dt"] = BlockSize /\ BlockSize \in Nat
  BY <1>1, SMTT(30) DEF IInv, SectionInv, BlockSize, DtbTypeOK
<1>3. at["dt"] # Absent /\ got["dt"] # Absent
  BY <1>1, <1>2, PassedSteps DEF IInv, BootInv, ReaderInv, WriterInv, Sections, Absent
<1>4. RoundTrip
  BY BootInvRoundTrip, Zenon DEF IInv
<1>5. got["dt"] = at["dt"]
  BY <1>3, <1>4, Zenon DEF RoundTrip, Sections
<1>6. \A b \in DOMAIN placed : placed[b] + PageAlign(blobs[b].size) <= hdr.size["dt"]
  BY <1>2, BlockRoom, Zenon DEF IInv
<1> QED
  BY <1>5, <1>6, Zenon DEF BlockInFile

\* Every step of the tools keeps the invariant.
LEMMA NextIInv ==
  ASSUME IInv, [Next]_vars
  PROVE  IInv'
<1> USE DEF IInv
<1>1. CASE BuildBlock /\ tool' = tool
  <2>1. BootInv' /\ mk = "args" /\ mk' = "args" /\ pc = "dir" /\ i = 1 /\ un' = un
    BY <1>1, BootKept, Zenon
    DEF BuildBlock, BlockNext, ReadDir, DirFails, Build, NoDtbs, DumpInv, bootVars, mkVars, unVars
  <2>2. i' = 1 /\ pc' \in {"dir", "failed", "built"}
    <3>1. CASE ReadDir
      <4>1. Head(listing) \in FileType
        BY <3>1 DEF ReadDir, DtbTypeOK
      <4>2. Head(listing).kind \in {"dtb", "other", "unreadable"}
        BY <4>1, Zenon DEF FileType
      <4> QED
        BY <2>1, <3>1, <4>2, Zenon DEF ReadDir
    <3>2. CASE DirFails \/ Build \/ NoDtbs
      BY <2>1, <3>2, Zenon DEF DirFails, Build, NoDtbs
    <3> QED
      BY <1>1, <3>1, <3>2, Zenon DEF BuildBlock, BlockNext
  <2>3. DtbTypeOK' /\ BlockInv'
    <3>1. CASE ReadDir
      BY <3>1, ReadDirStep, Zenon
    <3>2. CASE Build
      BY <3>2, BuildStep, Zenon
    <3>3. CASE DirFails \/ NoDtbs
      <4>1. UNCHANGED buildVars /\ UNCHANGED i /\ pc' = "failed"
        BY <3>3, Zenon DEF DirFails, NoDtbs
      <4> QED
        BY <4>1, BlockKept, Zenon DEF DtbTypeOK, buildVars
    <3> QED
      BY <1>1, <3>1, <3>2, <3>3, Zenon DEF BuildBlock, BlockNext
  <2>4. DumpInv'
    BY <2>2, <2>3, NothingDumped, Zenon
  <2>5. SectionInv'
    BY <2>1, <2>2, Zenon DEF SectionInv
  <2> QED
    BY <2>1, <2>3, <2>4, <2>5, Zenon
<1>2. CASE WriteBlock /\ tool' = tool
  <2>1. BootInv' /\ UNCHANGED bootVars /\ tool = "mkdtbimg"
    BY <1>2, BootKept, Zenon DEF WriteBlock
  <2>2. UNCHANGED <<buildVars, i>> /\ pc = "built" /\ pc' \in {"built", "failed", "written"}
    BY <1>2, Zenon DEF WriteBlock, OutputNext, OpenOutput, WriteOutput, OutputFails
  <2>3. DtbTypeOK' /\ BlockInv'
    BY <2>2, BlockKept, Zenon DEF DtbTypeOK, buildVars
  <2>4. DumpInv'
    BY <2>2, <2>3, NothingDumped, Zenon DEF DumpInv
  <2>5. SectionInv'
    BY <1>2, <2>1, <2>2, Zenon DEF SectionInv
  <2> QED
    BY <2>1, <2>3, <2>4, <2>5, Zenon
<1>3. CASE LoadInputs /\ tool' = tool
  <2>1. PICK a \in Argument : Load(a) /\ (tool = "mkbootimg_dt_dir" => a.dt = BlockSize)
    <3>1. CASE tool = "mkbootimg" /\ \E a \in Arguments : Load(a)
      BY <3>1, BootImageAssumption, Zenon
    <3>2. CASE /\ tool = "mkbootimg_dt_dir"
               /\ \E a \in DirArguments : Load([a EXCEPT !.page_size = PageSize, !.dt = BlockSize])
      <4>1. PICK a \in DirArguments : Load([a EXCEPT !.page_size = PageSize, !.dt = BlockSize])
        BY <3>2, Zenon
      <4>2. a \in Argument
        BY DirAssumption, Zenon
      <4>3. PageSize \in Nat \ {0} /\ BlockSize \in Nat
        BY DtbImageAssumption DEF BlockSize, DtbTypeOK
      <4>4. [a EXCEPT !.page_size = PageSize, !.dt = BlockSize] \in Argument
        BY <4>2, <4>3, Zenon DEF Argument
      <4>5. [a EXCEPT !.page_size = PageSize, !.dt = BlockSize].dt = BlockSize
        BY <4>2, Zenon DEF Argument
      <4> QED
        BY <4>1, <4>4, <4>5, Zenon
    <3> QED
      BY <1>3, <3>1, <3>2, Zenon DEF LoadInputs
  <2>2. BootInv'
    BY <2>1, LoadStep, Zenon
  <2>3. DtbTypeOK' /\ BlockInv' /\ DumpInv' /\ UNCHANGED dtbVars
    BY <1>3, DtbKept, Zenon DEF LoadInputs
  <2>4. hdr'.size["dt"] = a.dt /\ mk = "args"
    BY <2>1, Zenon DEF Load
  <2>5. pc # "garbage"
    BY <2>4, Zenon DEF SectionInv, BootInv, ReaderInv
  <2>6. SectionInv'
    BY <1>3, <2>1, <2>3, <2>4, <2>5, Zenon DEF SectionInv, BlockSize, dtbVars
  <2> QED
    BY <2>2, <2>3, <2>6, Zenon
<1>4. CASE BootImageStep /\ tool' = tool
  <2>1. BootInv' /\ UNCHANGED dtbVars
    BY <1>4, BootStep, Zenon DEF BootImageStep
  <2>2. DtbTypeOK' /\ BlockInv' /\ DumpInv'
    BY <2>1, DtbKept, Zenon
  <2>3. hdr' = hdr /\ (mk' \notin {"args", "failed"} => mk \notin {"args", "failed"})
    BY <1>4, Zenon
    DEF BootImageStep, BootNext, LoadFails, Open, WriteSection, WriteFails, Written, FindHeader,
        ReadSection, ReadAll, mkVars
  <2>4. un # "done"
    BY <1>4, Zenon
    DEF BootImageStep, BootNext, LoadFails, Open, WriteSection, WriteFails, Written, FindHeader,
        ReadSection, ReadAll, BootInv, ReaderInv
  <2>5. SectionInv'
    BY <1>4, <2>1, <2>3, <2>4, Zenon DEF SectionInv, BlockSize, dtbVars
  <2> QED
    BY <2>1, <2>2, <2>5, Zenon
<1>5. CASE ReadFile /\ tool' = tool
  <2>1. BootInv' /\ tool = "mkdtbimg"
    BY <1>5, BootKept, Zenon DEF ReadFile
  <2>2. UNCHANGED <<buildVars, i>> /\ pc = "written" /\ pc' \in {"reading", "failed"}
    BY <1>5, Zenon DEF ReadFile, ReadHeader
  <2>3. DtbTypeOK' /\ BlockInv'
    BY <2>2, BlockKept, Zenon DEF DtbTypeOK, buildVars
  <2>4. DumpInv'
    BY <2>2, <2>3, NothingDumped, Zenon DEF DumpInv
  <2>5. SectionInv'
    BY <1>5, <2>1, <2>2, Zenon DEF SectionInv
  <2> QED
    BY <2>1, <2>3, <2>4, <2>5, Zenon
<1>6. CASE ReadSectionFile /\ tool' = tool
  <2>1. BootInv' /\ UNCHANGED bootVars /\ tool = "mkbootimg_dt_dir" /\ un = "done"
    BY <1>6, BootKept, Zenon DEF ReadSectionFile
  <2>2. /\ UNCHANGED <<buildVars, i>> /\ pc = "built" /\ pc' \in {"reading", "failed", "garbage"}
        /\ pc' = "garbage" => ~BlockInFile
    BY <1>6, Zenon DEF ReadSectionFile
  <2>3. DtbTypeOK' /\ BlockInv'
    BY <2>2, BlockKept, Zenon DEF DtbTypeOK, buildVars
  <2>4. DumpInv'
    BY <2>2, <2>3, NothingDumped, Zenon DEF DumpInv
  <2>5. pc' = "garbage" => page # hdr.page_size \/ ~SecondWellPadded
    BY <2>1, <2>2, SectionCutOut, Zenon
  <2>6. SectionInv'
    BY <1>6, <2>1, <2>2, <2>5, Zenon
    DEF SectionInv, SecondWellPadded, SizeOf, BlockSize, bootVars, mkVars, unVars, buildVars
  <2> QED
    BY <2>1, <2>3, <2>4, <2>6, Zenon
<1>7. CASE UnpackTrees /\ tool' = tool
  <2>1. BootInv' /\ UNCHANGED bootVars
    BY <1>7, BootKept, Zenon DEF UnpackTrees
  <2>2. UNCHANGED buildVars /\ pc = "reading" /\ pc' \in {"reading", "done"}
    BY <1>7, Zenon DEF UnpackTrees, UnpackNext, ReadEntry, AllEntriesRead
  <2>3. DtbTypeOK' /\ BlockInv' /\ DumpInv'
    <3>1. CASE ReadEntry
      BY <3>1, ReadEntryStep, Zenon
    <3>2. CASE AllEntriesRead
      <4>1. UNCHANGED <<i, dumps, refused>> /\ i > Len(entries) /\ pc' = "done"
        BY <3>2, Zenon DEF AllEntriesRead
      <4>2. DtbTypeOK' /\ BlockInv'
        BY <2>2, <4>1, BlockKept, Zenon DEF DtbTypeOK, buildVars
      <4>3. Len(entries) \in Nat /\ i \in Nat
        <5>1. CASE placed = <<>>
          BY <5>1, Zenon DEF BlockInv, DtbTypeOK
        <5>2. CASE placed # <<>>
          BY <5>2 DEF BlockInv, LaidOut, DtbTypeOK
        <5> QED
          BY <5>1, <5>2, Zenon
      <4>4. i = Len(entries) + 1
        BY <4>1, <4>3, SMTT(30) DEF DumpInv
      <4>5. DumpInv'
        BY <2>2, <4>1, <4>4, Zenon DEF DumpInv, DumpName, TableFits, FirstBlob, buildVars
      <4> QED
        BY <4>2, <4>5, Zenon
    <3> QED
      BY <1>7, <3>1, <3>2, Zenon DEF UnpackTrees, UnpackNext
  <2>4. SectionInv'
    BY <1>7, <2>1, <2>2, Zenon DEF SectionInv, BlockSize, bootVars, mkVars, unVars, buildVars
  <2> QED
    BY <2>1, <2>3, <2>4, Zenon
<1>8. CASE UNCHANGED vars
  <2>1. BootInv' /\ UNCHANGED dtbVars /\ UNCHANGED bootVars /\ tool' = tool
    BY <1>8, BootKept, Zenon DEF vars
  <2>2. DtbTypeOK' /\ BlockInv' /\ DumpInv'
    BY <2>1, DtbKept, Zenon
  <2>3. SectionInv'
    BY <2>1, Zenon
    DEF SectionInv, BlockSize, SecondWellPadded, SizeOf, bootVars, mkVars, unVars, dtbVars
  <2> QED
    BY <2>1, <2>2, <2>3, Zenon
<1> QED
  BY <1>1, <1>2, <1>3, <1>4, <1>5, <1>6, <1>7, <1>8, Zenon DEF Next

\* The invariant holds of every run of the tools.
THEOREM ImagesInvariant == Spec => []IInv
<1>1. Init => IInv
  BY InitIInv, Zenon
<1>2. IInv /\ [Next]_vars => IInv'
  BY NextIInv, Zenon
<1> QED
  BY <1>1, <1>2, PTL DEF Spec

\* unpackbootimg finds every section where mkbootimg wrote it, for every page
\* size, every combination of sizes and inputs and every prefix: read_padding
\* undoes write_padding.
THEOREM SectionsRoundTrip == Spec => []RoundTrip
<1>1. IInv => RoundTrip
  BY BootInvRoundTrip, Zenon DEF IInv
<1> QED
  BY <1>1, ImagesInvariant, PTL

\* The base and the offsets unpackbootimg reports give the load addresses of the
\* image again, for every address, also where the subtraction wraps.
THEOREM ReportedAddressesSurvive == Spec => []AddressesSurvive
<1>1. IInv => AddressesSurvive
  BY BootInvAddresses, Zenon DEF IInv
<1> QED
  BY <1>1, ImagesInvariant, PTL

\* load_dtbh_block copies every blob behind the table, on a page boundary, apart
\* from the others and inside the memory it allocated, for every directory.
THEOREM BlobsStayInsideBlock == Spec => []BlobsInsideBlock
<1>1. IInv => BlobsInsideBlock
  BY BlockRoom, Zenon DEF IInv
<1> QED
  BY <1>1, ImagesInvariant, PTL

\* unpackdtbhimg writes every device tree of every directory back as it was,
\* directly or out of a boot image, while the table fits.
THEOREM DirectoriesSurvive == Spec => []TreesSurvive
<1>1. IInv => TreesSurvive
  BY IInvTrees, Zenon
<1> QED
  BY <1>1, ImagesInvariant, PTL
=============================================================================
