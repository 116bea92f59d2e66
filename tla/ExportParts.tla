---------------------------- MODULE ExportParts ----------------------------
(***************************************************************************)
(* build_export_zip_parts (services/export_zip.py): the images of an       *)
(* export are packed, in their order, into ZIP files of limited size. Each *)
(* candidate is written to the disk to learn its size, under the name of   *)
(* the part it may become.                                                 *)
(***************************************************************************)
EXTENDS Naturals, Sequences, FiniteSetsExt, Functions

CONSTANTS
  Exports,           \* the exports: each the sequence of its images' sizes in the ZIP
  MaximumPartBytes

ASSUME ExportsAreSizes == Exports \subseteq Seq(Nat)
ASSUME LimitIsNat == MaximumPartBytes \in Nat

VARIABLES
  sizes,    \* the export that is built
  image,    \* the image to be taken next
  first,    \* current_images are those from this one to the one before image
  parts,    \* the finished parts, as <<first image, last image>>
  disk,     \* the ZIP files: what each part number holds
  outcome   \* "building", "built" or "too_large"

exportVars == <<sizes, image, first, parts, disk, outcome>>

ZipBytes(from, to) == MapThenSumSet(LAMBDA i : sizes[i], from..to)

\* Mutant: an image that fills a part exactly begins the next one.
FitsBelow(from, to) == ZipBytes(from, to) < MaximumPartBytes

Fits(from, to) == ZipBytes(from, to) <= MaximumPartBytes

\* Writing a ZIP file replaces the one of that number.
Write(number, from, to) ==
  disk' = [k \in DOMAIN disk \cup {number} |-> IF k = number THEN <<from, to>> ELSE disk[k]]

PackingInit ==
  /\ sizes \in Exports
  /\ image = 1 /\ first = 1 /\ parts = <<>> /\ disk = <<>> /\ outcome = "building"

Taking == outcome = "building" /\ image <= Len(sizes)

\* The candidate stays on the disk until the next one of its number.
ImageFits ==
  /\ Taking /\ Fits(first, image)
  /\ Write(Len(parts) + 1, first, image)
  /\ image' = image + 1
  /\ UNCHANGED <<sizes, first, parts, outcome>>

\* Nothing but this image is in the candidate.
SingleImageTooLarge ==
  /\ Taking /\ ~Fits(first, image) /\ first = image
  /\ disk' = Restrict(disk, DOMAIN disk \ {Len(parts) + 1})
  /\ outcome' = "too_large"
  /\ UNCHANGED <<sizes, image, first, parts>>

\* Mutant: the candidate, with the image that is too much, is left on the disk.
KeepCandidate == Write(Len(parts) + 1, first, image)

\* _finalize_part writes the part anew.
Finalize == Write(Len(parts) + 1, first, image - 1)

\* The image begins the next part; its own size is not looked at.
PartIsFull ==
  /\ Taking /\ ~Fits(first, image) /\ first < image
  /\ Finalize
  /\ parts' = Append(parts, <<first, image - 1>>)
  /\ first' = image /\ image' = image + 1
  /\ UNCHANGED <<sizes, outcome>>

\* An export without images has one part, with its manifest.
LastPart ==
  /\ outcome = "building" /\ image > Len(sizes) /\ (first < image \/ parts = <<>>)
  /\ Finalize
  /\ parts' = Append(parts, <<first, image - 1>>)
  /\ outcome' = "built"
  /\ UNCHANGED <<sizes, image, first>>

PackingNext == ImageFits \/ SingleImageTooLarge \/ PartIsFull \/ LastPart

PackingSpec == PackingInit /\ [][PackingNext]_exportVars

-----------------------------------------------------------------------------
PackingTypeOK ==
  /\ sizes \in Seq(Nat)
  /\ image \in 1..(Len(sizes) + 1) /\ first \in 1..(Len(sizes) + 1)
  /\ parts \in Seq(Nat \X Nat)
  /\ outcome \in {"building", "built", "too_large"}

\* The end of what the finished parts hold.
Packed == IF parts = <<>> THEN 0 ELSE parts[Len(parts)][2]

\* The parts hold the images of the snapshot in their order: none is lost,
\* repeated or moved, whichever candidates were written and thrown away, and
\* each finished part has its file, with just its images.
PartsHoldTheImages ==
  /\ \A k \in 1..Len(parts) :
       /\ parts[k][1] = (IF k = 1 THEN 1 ELSE parts[k - 1][2] + 1)
       /\ k \in DOMAIN disk /\ disk[k] = parts[k]
  /\ outcome = "building" => Packed = first - 1
  /\ outcome = "built" => Packed = Len(sizes) /\ DOMAIN disk = 1..Len(parts)
  /\ outcome = "too_large" => DOMAIN disk = {}

\* A part is filled up: it exceeds the limit only if it is a single image that
\* is not the first of its export, and the next image would exceed it.
PartsAreFull ==
  \A k \in 1..Len(parts) :
    /\ \/ ZipBytes(parts[k][1], parts[k][2]) <= MaximumPartBytes
       \/ k > 1 /\ parts[k][1] = parts[k][2]
    /\ parts[k][2] < Len(sizes) =>
         ZipBytes(parts[k][1], parts[k][2] + 1) > MaximumPartBytes

\* docs/ARCHITECTURE.md: "ZIP parts target at most 45 MiB; oversized single-image
\* parts fail with a stable error".
PartsFit == \A k \in 1..Len(parts) :
  ZipBytes(parts[k][1], parts[k][2]) <= MaximumPartBytes

=============================================================================
