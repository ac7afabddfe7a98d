------------------------------- MODULE TrainSet -------------------------------
(***************************************************************************)
(* The training images of one version and the books about them: one folder    *)
(* of train/, its manifest.json (studio/services/preprocess/manifest.py), the  *)
(* training masks beside the images, the held-out images of validation/, and   *)
(* the operations of curation, preprocessing and the validation split on them. *)
(*                                                                             *)
(* An image file is named after the original it was copied from: "own" is the  *)
(* original's file name, "png" the same stem with the suffix every crop and    *)
(* inpainting writes (X.jpg -> X.png), and a piece is one output of a fan-out   *)
(* (X_c0.png).  Pixels are abstracted to their geometry: how many times the     *)
(* image was cut or scaled since the original.  A mask is drawn for a geometry. *)
(*                                                                             *)
(* A request is one step (its manifest part holds the module's lock), and so is *)
(* one image of a job; requests come between the images of a job, whose list    *)
(* was made before.  A request over several names is several requests here.     *)
(***************************************************************************)
EXTENDS Integers, FiniteSets

CONSTANTS
  Originals,   \* images that may be in download/
  Pools,       \* what download/ may hold at the start
  NativePng,   \* those whose own file name ends in .png
  NoOriginal,  \* what a name that is no original's resolves to
  Pieces,      \* the suffixes of fan-out names: _c0, _c1, ...
  Fans,        \* the sets of pieces one crop may write
  MaxGeo,      \* bound on cuts and scalings of one image
  MaxTodo,     \* bound on the images of one job
  MaxHeld      \* bound on the held-out images

ASSUME NameAssumption  == NativePng \subseteq Originals /\ NoOriginal \notin Originals
ASSUME PoolAssumption  == Pools \subseteq SUBSET Originals
ASSUME PieceAssumption == "own" \notin Pieces /\ "png" \notin Pieces
ASSUME FanAssumption   == Fans \subseteq SUBSET Pieces /\ \A fan \in Fans : Cardinality(fan) > 1
ASSUME TrainBoundAssumption == MaxGeo \in Nat /\ MaxTodo \in Nat /\ MaxHeld \in Nat

VARIABLES
  file,      \* train/{folder}/: the image files
  entry,     \* train/manifest.json
  mask,      \* train/{folder}/{stem}.mask: the geometry it was drawn for
  val,       \* validation/: the names held out
  download,  \* the originals that are still there
  job        \* the preprocess job that runs, and the images it has yet to do

vars == <<file, entry, mask, val, download, job>>

Name   == Originals \X ({"own", "png"} \cup Pieces)
NoMask == -1

Image == [there : BOOLEAN, geo : 0..MaxGeo, touched : BOOLEAN]
Entry == [kind : {"none", "live", "removed"},
          origin : Originals \cup {NoOriginal}, processed : BOOLEAN]
Job   == [kind : {"none", "crop", "upscale"}, todo : SUBSET Name]

NoFile  == [there |-> FALSE, geo |-> 0, touched |-> FALSE]
NoEntry == [kind |-> "none", origin |-> NoOriginal, processed |-> FALSE]
NoJob   == [kind |-> "none", todo |-> {}]

\* A fresh copy of the original, and the entry of it.
Fresh     == [there |-> TRUE, geo |-> 0, touched |-> FALSE]
FreshOf(o) == [kind |-> "live", origin |-> o, processed |-> FALSE]
DoneOf(o)  == [kind |-> "live", origin |-> o, processed |-> TRUE]

TypeInvariant ==
  /\ file \in [Name -> Image]
  /\ entry \in [Name -> Entry]
  /\ mask \in [Name -> {NoMask} \cup 0..MaxGeo]
  /\ val \subseteq Name
  /\ download \subseteq Originals
  /\ job \in Job

Init ==
  /\ file = [k \in Name |-> NoFile]
  /\ entry = [k \in Name |-> NoEntry]
  /\ mask = [k \in Name |-> NoMask]
  /\ val = {}
  /\ download \in Pools
  /\ job = NoJob

--------------------------------------------------------------------------------
(* Names and who owns them *)

Own(o) == <<o, "own">>

\* Where a crop into one, or an inpainting, of k writes: the same stem, as PNG.
AsPng(k) == IF k[2] = "own" /\ k[1] \notin NativePng THEN <<k[1], "png">> ELSE k

\* A mask belongs to the stem: X.jpg and X.png share theirs.
Stem(k) == IF k[2] \in Pieces THEN k ELSE Own(k[1])

\* The origin a name falls back to when the manifest does not know it.
OfName(k)   == IF k[2] = "own" THEN k[1] ELSE NoOriginal
OriginOf(k) == IF entry[k].kind = "none" THEN OfName(k) ELSE entry[k].origin

\* Variant: only the images, not the tombstones.
ImagesOf(o) == {k \in Name : entry[k].kind = "live" /\ entry[k].origin = o}

\* The names of an original in the manifest, tombstones included.
GroupOf(o) == {k \in Name : entry[k].kind # "none" /\ entry[k].origin = o}

\* The originals of the images present, and of the held-out images.
TrainOrigins == {OriginOf(k) : k \in {n \in Name : file[n].there}}
HeldOrigins  == {k[1] : k \in val}

Without(f, S, none) == [k \in Name |-> IF k \in S THEN none ELSE f[k]]
Masks(S) == {Stem(k) : k \in S}

--------------------------------------------------------------------------------
(* Curation *)

\* copy_download_to_train: an original already in the manifest of the folder, by
\* whatever name, is skipped.
CopyToTrain(o) ==
  /\ o \in download
  /\ GroupOf(o) = {}
  /\ ~file[Own(o)].there
  /\ file' = [file EXCEPT ![Own(o)] = Fresh]
  /\ entry' = [entry EXCEPT ![Own(o)] = FreshOf(o)]
  /\ UNCHANGED <<mask, val, download, job>>

\* remove_from_train: everything derived from the original; of an original the
\* manifest does not know, the file of that name.
RemoveFromTrain(o) ==
  LET gone == IF GroupOf(o) # {} THEN GroupOf(o) ELSE {Own(o)}
  IN  /\ file' = Without(file, gone, NoFile)
      /\ mask' = Without(mask, Masks(gone), NoMask)
      /\ entry' = Without(entry, GroupOf(o), NoEntry)
      /\ UNCHANGED <<val, download, job>>

\* copy_download_to_validation: what is in use on either side is skipped.
CopyToValidation(o) ==
  /\ o \in download
  /\ o \notin TrainOrigins \cup HeldOrigins
  /\ Own(o) \notin val
  /\ Cardinality(val) < MaxHeld
  /\ val' = val \cup {Own(o)}
  /\ UNCHANGED <<file, entry, mask, download, job>>

RemoveFromValidation(k) ==
  /\ k \in val
  /\ val' = val \ {k}
  /\ UNCHANGED <<file, entry, mask, download, job>>

\* ensure_validation_split, before a training: images picked one by one at random
\* move to validation/; their entries and their masks stay behind.
Split(S) ==
  /\ S # {} /\ \A k \in S : file[k].there
  /\ Cardinality(val \cup S) <= MaxHeld
  /\ file' = Without(file, S \ val, NoFile)
  /\ val' = val \cup S
  /\ UNCHANGED <<entry, mask, download, job>>

\* The user deletes an original.
LoseOriginal(o) ==
  /\ o \in download
  /\ download' = download \ {o}
  /\ UNCHANGED <<file, entry, mask, val, job>>

--------------------------------------------------------------------------------
(* Preprocessing: requests *)

\* train_mark_duplicate_removed: the image goes, a tombstone remains.
MarkDuplicate(k) ==
  /\ entry[k].kind # "removed"
  /\ entry[k].kind = "live" \/ file[k].there
  /\ file' = [file EXCEPT ![k] = NoFile]
  /\ mask' = [mask EXCEPT ![Stem(k)] = NoMask]
  /\ entry' = [entry EXCEPT ![k] =
       [kind |-> "removed", processed |-> FALSE,
        origin |-> IF entry[k].kind = "live" THEN entry[k].origin ELSE NoOriginal]]
  /\ UNCHANGED <<val, download, job>>

\* train_restore: the whole group of the name collapses to one fresh original.
Restored(o) ==
  /\ file' = [Without(file, GroupOf(o), NoFile) EXCEPT ![Own(o)] = Fresh]
  /\ mask' = Without(mask, Masks(GroupOf(o) \cup {Own(o)}), NoMask)
  /\ entry' = [Without(entry, GroupOf(o), NoEntry) EXCEPT ![Own(o)] = FreshOf(o)]

Restore(k) ==
  /\ entry[k].kind # "none"
  /\ entry[k].origin \in download
  /\ Restored(entry[k].origin)
  /\ UNCHANGED <<val, download, job>>

\* train_replace_with_crops: the entry of the source makes way for the outputs'.
\* (Entries whose origin is the source's relative path would go too: none is.)
Replaced(k, outs) ==
  entry' = [n \in Name |-> IF n \in outs THEN DoneOf(OriginOf(k))
                           ELSE IF n = k THEN NoEntry ELSE entry[n]]

\* inpaint_save_train: same size, so the mask stays.
Inpaint(k) ==
  /\ file[k].there
  /\ file' = [Without(file, {k}, NoFile) EXCEPT ![AsPng(k)] = [file[k] EXCEPT !.touched = TRUE]]
  /\ Replaced(k, {AsPng(k)})
  /\ UNCHANGED <<mask, val, download, job>>

\* mask_save_train: a mask of another size than the image is refused.
SaveMask(k) ==
  /\ file[k].there
  /\ mask' = [mask EXCEPT ![Stem(k)] = file[k].geo]
  /\ UNCHANGED <<file, entry, val, download, job>>

DeleteMask(k) ==
  /\ mask[Stem(k)] # NoMask
  /\ mask' = [mask EXCEPT ![Stem(k)] = NoMask]
  /\ UNCHANGED <<file, entry, val, download, job>>

--------------------------------------------------------------------------------
(* Preprocessing: the job, image by image (preprocess_worker) *)

\* The names of a crop come with the request, those of an upscale are listed when
\* the job starts.
StartJob(kind, S) ==
  /\ job = NoJob
  /\ S # {} /\ Cardinality(S) <= MaxTodo
  /\ kind = "upscale" => \A k \in S : file[k].there
  /\ job' = [kind |-> kind, todo |-> S]
  /\ UNCHANGED <<file, entry, mask, val, download>>

Tick(k) == job' = IF job.todo = {k} THEN NoJob ELSE [job EXCEPT !.todo = @ \ {k}]

\* A crop of k writes its outputs, deletes what they replace, and takes the mask along.
Outputs(k) == {{AsPng(k)}} \cup
  IF k[2] \in Pieces THEN {} ELSE {{k[1]} \X fan : fan \in Fans}

\* Variants: the source stays beside its pieces; what was just written goes too.
NothingStale(k, outs) == {}
StaleByName(k, outs)  == {k, AsPng(k)}

Stale(k, outs) == {k, AsPng(k)} \ outs

\* Variant: every piece is cut from the mask the piece before left behind.
MaskCutInTurn(k, outs) ==
  IF mask[Stem(k)] = NoMask THEN mask
  ELSE [n \in Name |-> IF n \in Masks(outs) THEN mask[Stem(k)] + Cardinality(outs)
                       ELSE IF n = Stem(k) THEN NoMask ELSE mask[n]]

CutMask(k, outs) ==
  IF mask[Stem(k)] = NoMask THEN mask
  ELSE [n \in Name |-> IF n \in Masks(outs) THEN mask[Stem(k)] + 1
                       ELSE IF n = Stem(k) THEN NoMask ELSE mask[n]]

Written(k, outs) ==
  [n \in Name |-> IF n \in outs THEN [there |-> TRUE, geo |-> file[k].geo + 1, touched |-> TRUE]
                  ELSE file[n]]

Cut(k, outs) == Without(Written(k, outs), Stale(k, outs), NoFile)

Crop(k) ==
  /\ job.kind = "crop" /\ k \in job.todo
  /\ file[k].there /\ file[k].geo < MaxGeo
  /\ \E outs \in Outputs(k) :
       file' = Cut(k, outs) /\ mask' = CutMask(k, outs) /\ Replaced(k, outs)
  /\ Tick(k)
  /\ UNCHANGED <<val, download>>

\* Variant: the mask keeps the size it was drawn in.
MaskAsDrawn(k) == mask

\* The mask is resized with the image, if there is one.
ScaledMask(k) ==
  IF mask[Stem(k)] = NoMask THEN mask ELSE [mask EXCEPT ![Stem(k)] = file[k].geo + 1]

\* An upscale overwrites the image in place.
Upscale(k) ==
  /\ job.kind = "upscale" /\ k \in job.todo
  /\ file[k].there /\ file[k].geo < MaxGeo
  /\ file' = [file EXCEPT ![k] = [there |-> TRUE, geo |-> file[k].geo + 1, touched |-> TRUE]]
  /\ entry' = [entry EXCEPT ![k] = DoneOf(OriginOf(k))]
  /\ mask' = ScaledMask(k)
  /\ Tick(k)
  /\ UNCHANGED <<val, download>>

\* An image that is gone by now is skipped; one that cannot be processed is left alone.
PassOver(k) ==
  /\ k \in job.todo
  /\ Tick(k)
  /\ UNCHANGED <<file, entry, mask, val, download>>

\* A cancel stops the job before its next image.
StopJob ==
  /\ job # NoJob
  /\ job' = NoJob
  /\ UNCHANGED <<file, entry, mask, val, download>>

--------------------------------------------------------------------------------
Curate(o) == \/ CopyToTrain(o) \/ RemoveFromTrain(o)
             \/ CopyToValidation(o) \/ LoseOriginal(o)

Edit(k) == \/ RemoveFromValidation(k) \/ MarkDuplicate(k) \/ Restore(k)
           \/ Inpaint(k) \/ SaveMask(k) \/ DeleteMask(k)

Work(k) == Crop(k) \/ Upscale(k) \/ PassOver(k)

Next ==
  \/ \E o \in Originals : Curate(o)
  \/ \E k \in Name : Edit(k) \/ Work(k)
  \/ \E S \in SUBSET Name : Split(S) \/ \E kind \in {"crop", "upscale"} : StartJob(kind, S)
  \/ StopJob

Spec == Init /\ [][Next]_vars

--------------------------------------------------------------------------------
(* Properties *)

\* Every training image has a live entry that names the original it came from: it can
\* be restored, and removing its original removes it too; and what was removed as a
\* duplicate is not among the training images.
OriginKnown ==
  \A k \in Name : file[k].there => entry[k].kind = "live" /\ entry[k].origin = k[1]

\* train_restore's guarantee: an original is in the training set once, as one whole
\* image under one name or as the pieces of a fan-out, never as both.
OneCopyEach ==
  \A j, k \in Name :
    file[j].there /\ file[k].there /\ j[1] = k[1] => j = k \/ {j[2], k[2]} \subseteq Pieces

\* A mask fits the image it lies beside: every operation that changes the size of an
\* image takes its mask along or deletes it, even a mask left behind by a split.
MaskFits ==
  \A k \in Name : file[k].there /\ mask[Stem(k)] # NoMask => mask[Stem(k)] = file[k].geo

\* The badge "processed" (_is_processed) says whether the image differs from its original.
BadgeIsTrue ==
  \A k \in Name : file[k].there => (entry[k].processed <=> file[k].touched)

\* The review of duplicates is not undone by a job or by an edit of another image: a
\* tombstone goes only with all the names of its original, or for the fresh original.
RemovalIsKept ==
  [][\A o \in Originals, k \in Name :
       entry[k].kind = "removed" /\ entry[k].origin = o /\ entry'[k].kind # "removed" =>
         LET left == {n \in Name : entry'[n].kind # "none" /\ entry'[n].origin = o}
         IN  left = {} \/ (left = {Own(o)} /\ file'[Own(o)] = Fresh)]_vars

InTrain(o) == \E k \in Name : k[1] = o /\ file[k].there

\* No job and no edit loses an image: an original leaves the training set only when it
\* is removed, marked as a duplicate or held out.
NothingLost ==
  [][\A o \in Originals : InTrain(o) /\ ~InTrain(o)' =>
       /\ job' = job
       /\ \/ GroupOf(o)' = {}
          \/ \E k \in Name : k[1] = o /\ entry[k].kind = "live" /\ entry'[k].kind = "removed"
          \/ \E k \in val' \ val : k[1] = o]_vars

\* An image of the training set that is held out leaves it: "Held-out requires that an
\* image can't be in both train and validation at once" (curation.py, _used_names).
HeldOutWhole ==
  [][\A o \in Originals : InTrain(o) /\ o \notin HeldOrigins
       => ~(InTrain(o)' /\ o \in HeldOrigins')]_vars
================================================================================
