----------------------------- MODULE ImageTools -----------------------------
(***************************************************************************)
(* The image tools together.  The table of device trees that               *)
(* load_dtbh_block builds either becomes a file of its own (mkdtbimg) or a *)
(* section of a boot image (mkbootimg --dt_dir); unpackdtbhimg takes it    *)
(* apart, in the second case after unpackbootimg has cut it out.           *)
(***************************************************************************)
EXTENDS BootImage, DtbImage

CONSTANT DirArguments    \* arguments with --dt_dir; their dt is Absent

ASSUME DirAssumption == DirArguments \subseteq {a \in Argument : a.dt = Absent}

VARIABLE tool   \* "mkdtbimg", "mkbootimg" or "mkbootimg_dt_dir"

vars == <<bootVars, dtbVars, tool>>

Init ==
  /\ BootInit /\ DtbInit
  /\ tool \in {"mkdtbimg", "mkbootimg", "mkbootimg_dt_dir"}
  /\ tool = "mkbootimg" => listing = <<>>

-----------------------------------------------------------------------------
\* load_dtbh_block runs inside the one tool or the other.
BuildBlock ==
  /\ tool # "mkbootimg" /\ mk = "args"
  /\ BlockNext
  /\ UNCHANGED bootVars

WriteBlock ==
  /\ tool = "mkdtbimg"
  /\ OutputNext
  /\ UNCHANGED bootVars

\* *_sz: the size of the block that is returned.
BlockSize == hdr_sz + blob_sz

\* mkbootimg without a directory and with one.
LoadInputs ==
  /\ \/ tool = "mkbootimg" /\ \E a \in Arguments : Load(a)
     \/ /\ tool = "mkbootimg_dt_dir" /\ pc = "built"
        /\ \E a \in DirArguments : Load([a EXCEPT !.page_size = PageSize, !.dt = BlockSize])
  /\ UNCHANGED dtbVars

BootImageStep ==
  /\ tool # "mkdtbimg"
  /\ BootNext
  /\ UNCHANGED dtbVars

-----------------------------------------------------------------------------
ReadFile ==
  /\ tool = "mkdtbimg"
  /\ ReadHeader
  /\ UNCHANGED bootVars

\* The block lies in the file unpackbootimg has cut out, with all its trees.
BlockInFile ==
  /\ got["dt"] = at["dt"]
  /\ \A b \in DOMAIN placed : placed[b] + PageAlign(blobs[b].size) <= hdr.size["dt"]

\* unpackdtbhimg on the file of the section.  A file without content cannot be
\* read; what it makes of other bytes than a block is left open.
ReadSectionFile ==
  /\ tool = "mkbootimg_dt_dir" /\ un = "done" /\ pc = "built"
  /\ pc' \in IF files["dt"] = "empty" THEN {"failed"}
             ELSE IF BlockInFile THEN {"reading", "failed"} ELSE {"garbage"}
  /\ UNCHANGED <<bootVars, buildVars, output, i, dumps, refused>>

UnpackTrees ==
  /\ UnpackNext
  /\ UNCHANGED bootVars

Next ==
  /\ \/ BuildBlock \/ WriteBlock \/ LoadInputs \/ BootImageStep
     \/ ReadFile \/ ReadSectionFile \/ UnpackTrees
  /\ UNCHANGED tool

Spec == Init /\ [][Next]_vars

-----------------------------------------------------------------------------
\* A directory of device trees comes back from either way through the tools:
\* every tree whose file can be written is dumped as it was, behind whatever
\* kernel, ramdisk and prefix it was stored, in whatever order readdir and
\* qsort left it, while the table fits.  Trees of the same chip and revisions
\* have one name, and the last of them in the table remains.  On the way
\* through a boot image nothing but a page size that is not the image's or a
\* second stage padded like the ramdisk makes unpackdtbhimg read other bytes.
TreesSurvive ==
  /\ pc = "garbage" => page # hdr.page_size \/ ~SecondWellPadded
  /\ pc = "done" /\ TableFits =>
       \A n \in DOMAIN entries :
         LET name == DumpName(entries[n].blob)
             Same == {m \in DOMAIN entries : DumpName(entries[m].blob) = name}
             last == CHOOSE m \in Same : \A k \in Same : k <= m
         IN name \notin refused => dumps[name] = entries[last].blob
=============================================================================
