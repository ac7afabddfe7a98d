---------------------------- MODULE TrainSetProofs ----------------------------
(***************************************************************************)
(* The invariants of the training set hold for any originals, any fan-outs and *)
(* any bounds.  The strengthening says what the manifest knows about names     *)
(* without a file: their origin is the original they are named after, a whole  *)
(* image is the only name of its original, and no mask is left without a name  *)
(* in the manifest (so a removal or a restore of the original deletes it).     *)
(***************************************************************************)
EXTENDS TrainSet, FiniteSetTheorems, TLAPS

\* The manifest never mistakes an original, tombstones and names without file included.
OriginIsOwn == \A k \in Name : entry[k].kind # "none" => entry[k].origin = k[1]

\* A whole image has no sibling in the manifest, not even a tombstone.
WholeAlone ==
  \A k, n \in Name :
    file[k].there /\ k[2] \notin Pieces /\ entry[n].kind # "none" /\ n[1] = k[1] => n = k

\* A mask without an image is still found by way of a name in the manifest.
MaskOwned ==
  \A s \in Name : mask[s] # NoMask => \E k \in Name : entry[k].kind # "none" /\ Stem(k) = s

Books == OriginKnown /\ OriginIsOwn /\ WholeAlone /\ BadgeIsTrue
IInv  == TypeInvariant /\ Books /\ MaskOwned /\ MaskFits

--------------------------------------------------------------------------------
(* Names *)

LEMMA NameParts ==
  ASSUME NEW k \in Name
  PROVE  /\ k = <<k[1], k[2]>>
         /\ k[1] \in Originals
         /\ k[2] \in {"own", "png"} \cup Pieces
  BY DEF Name

LEMMA SameName ==
  ASSUME NEW j \in Name, NEW k \in Name, j[1] = k[1], j[2] = k[2]
  PROVE  j = k
  BY NameParts

LEMMA OwnName ==
  ASSUME NEW o \in Originals
  PROVE  Own(o) \in Name /\ Own(o)[1] = o /\ Own(o)[2] = "own" /\ Own(o)[2] \notin Pieces
  BY PieceAssumption DEF Own, Name

\* The mask of a whole image lies under the original's own stem, a piece's under its own.
LEMMA StemName ==
  ASSUME NEW k \in Name
  PROVE  /\ Stem(k) \in Name /\ Stem(k)[1] = k[1]
         /\ k[2] \in Pieces => Stem(k) = k
         /\ k[2] \notin Pieces => Stem(k)[2] = "own"
  BY NameParts, OwnName DEF Stem

LEMMA StemShared ==
  ASSUME NEW j \in Name, NEW k \in Name, Stem(j) = Stem(k)
  PROVE  j[1] = k[1] /\ (j = k \/ (j[2] \notin Pieces /\ k[2] \notin Pieces))
  BY StemName, PieceAssumption

LEMMA AsPngName ==
  ASSUME NEW k \in Name
  PROVE  /\ AsPng(k) \in Name /\ AsPng(k)[1] = k[1]
         /\ k[2] \in Pieces => AsPng(k) = k
         /\ k[2] \notin Pieces => AsPng(k)[2] \notin Pieces
         /\ Stem(AsPng(k)) = Stem(k)
<1>1. CASE k[2] = "own" /\ k[1] \notin NativePng
  <2>1. AsPng(k) = <<k[1], "png">>  BY <1>1 DEF AsPng
  <2>2. AsPng(k) \in Name  BY <2>1, NameParts DEF Name
  <2> QED  BY <1>1, <2>1, <2>2, PieceAssumption DEF Stem
<1>2. CASE ~(k[2] = "own" /\ k[1] \notin NativePng)
  <2>1. AsPng(k) = k  BY <1>2 DEF AsPng
  <2> QED  BY <2>1
<1> QED  BY <1>1, <1>2

\* What a crop writes: the image itself as PNG, or the pieces of a whole image.
LEMMA OutputNames ==
  ASSUME NEW k \in Name, NEW outs \in Outputs(k)
  PROVE  /\ \A n \in outs : n \in Name /\ n[1] = k[1]
         /\ \/ outs = {AsPng(k)}
            \/ k[2] \notin Pieces /\ (\A n \in outs : n[2] \in Pieces)
<1>1. CASE outs = {AsPng(k)}
  BY <1>1, AsPngName
<1>2. CASE outs # {AsPng(k)}
  <2>1. PICK fan \in Fans : outs = {k[1]} \X fan /\ k[2] \notin Pieces
    BY <1>2 DEF Outputs
  <2>2. \A n \in outs : n = <<n[1], n[2]>> /\ n[1] = k[1] /\ n[2] \in Pieces
    BY <2>1, FanAssumption
  <2> QED  BY <2>1, <2>2, NameParts DEF Name
<1> QED  BY <1>1, <1>2

--------------------------------------------------------------------------------
(* Requests of the curation *)

LEMMA TypeParts ==
  ASSUME TypeInvariant, NEW k \in Name
  PROVE  /\ file[k] \in Image /\ file[k].there \in BOOLEAN /\ file[k].geo \in 0..MaxGeo
         /\ file[k].touched \in BOOLEAN
         /\ entry[k] \in Entry /\ entry[k].kind \in {"none", "live", "removed"}
         /\ entry[k].origin \in Originals \cup {NoOriginal}
         /\ mask[k] \in {NoMask} \cup 0..MaxGeo
  BY DEF TypeInvariant, Image, Entry

LEMMA Values ==
  /\ NoFile \in Image /\ Fresh \in Image /\ NoEntry \in Entry
  /\ \A o \in Originals : FreshOf(o) \in Entry /\ DoneOf(o) \in Entry
  BY TrainBoundAssumption DEF NoFile, Fresh, NoEntry, FreshOf, DoneOf, Image, Entry

LEMMA InitInv == Init => IInv
<1> SUFFICES ASSUME Init PROVE IInv
  OBVIOUS
<1>1. TypeInvariant
  <2>1. NoJob \in Job  BY DEF NoJob, Job
  <2> QED  BY <2>1, Values, PoolAssumption DEF Init, TypeInvariant
<1>2. \A k \in Name : ~file[k].there /\ entry[k].kind = "none" /\ mask[k] = NoMask
  BY DEF Init, NoFile, NoEntry
<1> QED
  BY <1>1, <1>2, StemName
  DEF IInv, Books, OriginKnown, OriginIsOwn, WholeAlone, BadgeIsTrue, MaskOwned, MaskFits

\* An original the manifest does not know has no image either.
LEMMA UnknownIsAbsent ==
  ASSUME IInv, NEW o \in Originals, GroupOf(o) = {}
  PROVE  \A k \in Name : k[1] = o => entry[k].kind = "none" /\ ~file[k].there
  BY DEF IInv, Books, OriginKnown, OriginIsOwn, GroupOf

\* The group of an original holds the manifest's names of it, and its images.
LEMMA GroupIsOwn ==
  ASSUME IInv, NEW o \in Originals
  PROVE  /\ GroupOf(o) \subseteq Name
         /\ \A k \in Name : k \in GroupOf(o) <=> (k[1] = o /\ entry[k].kind # "none")
         /\ \A k \in Name : k[1] = o /\ file[k].there => k \in GroupOf(o)
  BY DEF IInv, Books, OriginKnown, OriginIsOwn, GroupOf

LEMMA CopyInv ==
  ASSUME IInv, NEW o \in Originals, CopyToTrain(o)
  PROVE  IInv'
<1>1. Own(o) \in Name /\ Own(o)[1] = o /\ Own(o)[2] \notin Pieces
  BY OwnName
<1>2. \A k \in Name : k[1] = o => entry[k].kind = "none" /\ ~file[k].there
  BY UnknownIsAbsent DEF CopyToTrain
<1>3. TypeInvariant'
  BY <1>1, Values DEF IInv, TypeInvariant, CopyToTrain
<1>4. \A k \in Name : /\ file'[k] = IF k = Own(o) THEN Fresh ELSE file[k]
                      /\ entry'[k] = IF k = Own(o) THEN FreshOf(o) ELSE entry[k]
                      /\ mask'[k] = mask[k]
  BY <1>1 DEF CopyToTrain, IInv, TypeInvariant
<1>5. Books'
  BY <1>1, <1>2, <1>4
  DEF IInv, Books, OriginKnown, OriginIsOwn, WholeAlone, BadgeIsTrue, Fresh, FreshOf
<1>6. MaskOwned'
  BY <1>1, <1>4 DEF IInv, MaskOwned, FreshOf
<1>7. mask[Stem(Own(o))] = NoMask
  BY <1>1, <1>2, StemName DEF IInv, MaskOwned
<1>8. MaskFits'
  BY <1>1, <1>4, <1>7, StemName DEF IInv, MaskFits
<1> QED  BY <1>3, <1>5, <1>6, <1>8 DEF IInv

LEMMA RemoveInv ==
  ASSUME IInv, NEW o \in Originals, RemoveFromTrain(o)
  PROVE  IInv'
<1> DEFINE gone == IF GroupOf(o) # {} THEN GroupOf(o) ELSE {Own(o)}
<1>1. gone \subseteq Name /\ GroupOf(o) \subseteq gone /\ \A k \in gone : k[1] = o
  BY OwnName, GroupIsOwn
<1>2. \A k \in Name : /\ file'[k] = IF k \in gone THEN NoFile ELSE file[k]
                      /\ entry'[k] = IF k \in GroupOf(o) THEN NoEntry ELSE entry[k]
                      /\ mask'[k] = IF k \in Masks(gone) THEN NoMask ELSE mask[k]
  BY DEF RemoveFromTrain, Without
<1>3. TypeInvariant'
  BY Values DEF IInv, TypeInvariant, RemoveFromTrain, Without
<1>4. \A k \in Name : k[1] = o => entry'[k].kind = "none" /\ ~file'[k].there
  BY <1>1, <1>2, GroupIsOwn DEF NoFile, NoEntry
<1>5. Books'
  BY <1>2, <1>4, GroupIsOwn
  DEF IInv, Books, OriginKnown, OriginIsOwn, WholeAlone, BadgeIsTrue, NoFile, NoEntry
<1>6. MaskOwned'
  <2> SUFFICES ASSUME NEW s \in Name, mask'[s] # NoMask
               PROVE  \E k \in Name : entry'[k].kind # "none" /\ Stem(k) = s
    BY DEF MaskOwned
  <2>1. s \notin Masks(gone) /\ mask[s] # NoMask  BY <1>2
  <2>2. PICK k \in Name : entry[k].kind # "none" /\ Stem(k) = s
    BY <2>1 DEF IInv, MaskOwned
  <2>3. k \notin GroupOf(o)  BY <1>1, <2>1, <2>2 DEF Masks
  <2> QED  BY <1>2, <2>2, <2>3
<1>7. MaskFits'
  BY <1>2, StemName DEF IInv, MaskFits, NoFile
<1> QED  BY <1>3, <1>5, <1>6, <1>7 DEF IInv

LEMMA SplitInv ==
  ASSUME IInv, NEW S \in SUBSET Name, Split(S)
  PROVE  IInv'
<1>1. \A k \in Name : /\ file'[k] \in {file[k], NoFile}
                      /\ entry'[k] = entry[k] /\ mask'[k] = mask[k]
  BY DEF Split, Without
<1>2. TypeInvariant'
  BY Values DEF IInv, TypeInvariant, Split, Without
<1>3. \A k \in Name : file'[k].there => file'[k] = file[k] /\ file[k].there
  BY <1>1 DEF NoFile
<1>4. Books'
  BY <1>1, <1>3 DEF IInv, Books, OriginKnown, OriginIsOwn, WholeAlone, BadgeIsTrue
<1>5. MaskOwned'
  BY <1>1 DEF IInv, MaskOwned
<1>6. MaskFits'
  BY <1>1, <1>3, StemName DEF IInv, MaskFits
<1> QED  BY <1>2, <1>4, <1>5, <1>6 DEF IInv

--------------------------------------------------------------------------------
(* Requests of the preprocessing *)

LEMMA MarkInv ==
  ASSUME IInv, NEW k \in Name, MarkDuplicate(k)
  PROVE  IInv'
<1>1. entry[k].kind = "live" /\ entry[k].origin = k[1]
  BY TypeParts DEF MarkDuplicate, IInv, Books, OriginKnown, OriginIsOwn
<1>2. Stem(k) \in Name
  BY StemName
<1>3. \A n \in Name : /\ file'[n] = IF n = k THEN NoFile ELSE file[n]
                      /\ n # k => entry'[n] = entry[n]
                      /\ mask'[n] = IF n = Stem(k) THEN NoMask ELSE mask[n]
  BY <1>2 DEF MarkDuplicate, IInv, TypeInvariant
<1>4. entry'[k].kind = "removed" /\ entry'[k].origin = k[1]
  BY <1>1 DEF MarkDuplicate, IInv, TypeInvariant
<1>5. TypeInvariant'
  <2>1. [kind |-> "removed", processed |-> FALSE, origin |-> entry[k].origin] \in Entry
    BY TypeParts DEF IInv, Entry
  <2> QED  BY <1>1, <1>2, <2>1, Values DEF IInv, TypeInvariant, MarkDuplicate
<1>6. Books'
  BY <1>1, <1>3, <1>4
  DEF IInv, Books, OriginKnown, OriginIsOwn, WholeAlone, BadgeIsTrue, NoFile
<1>7. MaskOwned'
  BY <1>1, <1>3, <1>4 DEF IInv, MaskOwned
<1>8. MaskFits'
  BY <1>3, StemName DEF IInv, MaskFits, NoFile
<1> QED  BY <1>5, <1>6, <1>7, <1>8 DEF IInv

LEMMA RestoreInv ==
  ASSUME IInv, NEW k \in Name, Restore(k)
  PROVE  IInv'
<1> DEFINE o == entry[k].origin
           gone == GroupOf(o) \cup {Own(o)}
<1>1. o \in Originals
  BY DEF Restore, IInv, TypeInvariant
<1>2. Own(o) \in Name /\ Own(o)[1] = o
  BY <1>1, OwnName
<1> HIDE DEF o
<1>3. \A n \in Name : /\ file'[n] = IF n = Own(o) THEN Fresh
                                    ELSE IF n \in GroupOf(o) THEN NoFile ELSE file[n]
                      /\ entry'[n] = IF n = Own(o) THEN FreshOf(o)
                                     ELSE IF n \in GroupOf(o) THEN NoEntry ELSE entry[n]
                      /\ mask'[n] = IF n \in Masks(gone) THEN NoMask ELSE mask[n]
  BY <1>2 DEF o, Restore, Restored, Without
<1>4. TypeInvariant'
  BY <1>1, <1>2, Values DEF o, IInv, TypeInvariant, Restore, Restored, Without
<1>5. \A n \in Name : n[1] = o /\ n # Own(o) => entry'[n].kind = "none" /\ ~file'[n].there
  BY <1>1, <1>3, GroupIsOwn DEF NoFile, NoEntry
<1>6. \A n \in Name : n[1] # o => entry'[n] = entry[n] /\ file'[n] = file[n]
  BY <1>1, <1>2, <1>3, GroupIsOwn
<1>7. file'[Own(o)] = Fresh /\ entry'[Own(o)] = FreshOf(o)
  BY <1>2, <1>3
<1>8. Books'
  BY <1>2, <1>5, <1>6, <1>7
  DEF IInv, Books, OriginKnown, OriginIsOwn, WholeAlone, BadgeIsTrue, Fresh, FreshOf
<1>9. MaskOwned'
  <2> SUFFICES ASSUME NEW s \in Name, mask'[s] # NoMask
               PROVE  \E n \in Name : entry'[n].kind # "none" /\ Stem(n) = s
    BY DEF MaskOwned
  <2>1. s \notin Masks(gone) /\ mask[s] # NoMask
    BY <1>3
  <2>2. PICK n \in Name : entry[n].kind # "none" /\ Stem(n) = s
    BY <2>1 DEF IInv, MaskOwned
  <2>3. n \notin gone
    BY <2>1, <2>2 DEF Masks
  <2> QED  BY <1>3, <2>2, <2>3
<1>10. MaskFits'
  <2> SUFFICES ASSUME NEW n \in Name, file'[n].there, mask'[Stem(n)] # NoMask
               PROVE  mask'[Stem(n)] = file'[n].geo
    BY DEF MaskFits
  <2>1. Stem(n) \in Name /\ Stem(n) \notin Masks(gone) /\ mask'[Stem(n)] = mask[Stem(n)]
    BY <1>3, StemName
  <2>2. n \notin gone
    BY <2>1 DEF Masks
  <2> QED  BY <1>3, <2>1, <2>2 DEF IInv, MaskFits
<1> QED  BY <1>4, <1>8, <1>9, <1>10 DEF IInv

LEMMA ReplacedAt ==
  ASSUME IInv, NEW k \in Name, file[k].there, NEW outs \in SUBSET Name, Replaced(k, outs)
  PROVE  /\ OriginOf(k) = k[1]
         /\ entry' \in [Name -> Entry]
         /\ \A n \in Name : entry'[n] = IF n \in outs THEN DoneOf(k[1])
                                        ELSE IF n = k THEN NoEntry ELSE entry[n]
<1>1. OriginOf(k) = k[1] /\ k[1] \in Originals
  BY NameParts DEF OriginOf, IInv, Books, OriginKnown
<1> QED  BY <1>1, Values DEF Replaced, IInv, TypeInvariant

LEMMA InpaintInv ==
  ASSUME IInv, NEW k \in Name, Inpaint(k)
  PROVE  IInv'
<1> DEFINE n   == AsPng(k)
           new == [file[k] EXCEPT !.touched = TRUE]
<1>1. n \in Name /\ n[1] = k[1] /\ (k[2] \in Pieces => n = k)
      /\ (k[2] \notin Pieces => n[2] \notin Pieces) /\ Stem(n) = Stem(k)
  BY AsPngName
<1>2. file[k].there /\ mask' = mask
  BY DEF Inpaint
<1>3. entry' \in [Name -> Entry]
      /\ \A m \in Name : entry'[m] = IF m = n THEN DoneOf(k[1])
                                     ELSE IF m = k THEN NoEntry ELSE entry[m]
  BY <1>1, <1>2, ReplacedAt DEF Inpaint
<1> HIDE DEF n
<1>4. new \in Image /\ new.there /\ new.touched /\ new.geo = file[k].geo
  BY <1>2 DEF IInv, TypeInvariant, Image
<1>5. /\ file' \in [Name -> Image]
      /\ \A m \in Name : file'[m] = IF m = n THEN new
                                    ELSE IF m = k THEN NoFile ELSE file[m]
  BY <1>1, <1>4, Values DEF n, Inpaint, Without, IInv, TypeInvariant
<1> HIDE DEF new
<1>6. TypeInvariant'
  BY <1>3, <1>5 DEF IInv, TypeInvariant, Inpaint
<1>7. /\ file'[n].there /\ file'[n].touched /\ file'[n].geo = file[k].geo
      /\ entry'[n] = DoneOf(k[1])
      /\ n # k => ~file'[k].there /\ entry'[k].kind = "none"
      /\ \A m \in Name \ {k, n} : file'[m] = file[m] /\ entry'[m] = entry[m]
  BY <1>1, <1>3, <1>4, <1>5 DEF NoFile, NoEntry
<1>8. \A m \in Name : m[1] = k[1] /\ entry[m].kind # "none" /\ k[2] \notin Pieces => m = k
  BY <1>2 DEF IInv, Books, WholeAlone
<1>9. OriginKnown' /\ OriginIsOwn' /\ BadgeIsTrue'
  <2>1. /\ entry'[n].kind = "live" /\ entry'[n].origin = n[1]
        /\ entry'[n].processed <=> file'[n].touched
    BY <1>1, <1>7 DEF DoneOf
  <2>2. n # k => ~file'[k].there /\ entry'[k].kind = "none"
    BY <1>7
  <2>3. \A m \in Name \ {k, n} : file'[m] = file[m] /\ entry'[m] = entry[m]
    BY <1>7
  <2>4. OriginKnown' /\ OriginIsOwn'
    BY <2>1, <2>2, <2>3 DEF IInv, Books, OriginKnown, OriginIsOwn
  <2>5. BadgeIsTrue'
    BY <2>1, <2>2, <2>3 DEF IInv, Books, BadgeIsTrue
  <2> QED  BY <2>4, <2>5
<1>10. WholeAlone'
  <2>1. CASE k[2] \in Pieces
    <3>1. \A m \in Name : /\ file'[m].there <=> file[m].there
                          /\ entry'[m].kind # "none" => entry[m].kind # "none"
      BY <1>1, <1>2, <1>7, <2>1 DEF IInv, Books, OriginKnown
    <3> QED  BY <3>1 DEF IInv, Books, WholeAlone
  <2>2. CASE k[2] \notin Pieces
    <3>1. \A m \in Name : m[1] = k[1] /\ entry'[m].kind # "none" => m = n
      BY <1>7, <1>8, <2>2
    <3>2. \A m \in Name : m[1] = k[1] /\ file'[m].there => m = n
      BY <1>9, <3>1 DEF OriginKnown
    <3>3. \A m \in Name : m[1] # k[1] => file'[m] = file[m] /\ entry'[m] = entry[m]
      BY <1>1, <1>7
    <3> QED  BY <1>1, <3>1, <3>2, <3>3 DEF IInv, Books, WholeAlone
  <2> QED  BY <2>1, <2>2
<1>11. MaskOwned'
  BY <1>1, <1>2, <1>7 DEF IInv, MaskOwned, DoneOf
<1>12. MaskFits'
  BY <1>1, <1>2, <1>7, StemName DEF IInv, MaskFits
<1> QED  BY <1>6, <1>9, <1>10, <1>11, <1>12 DEF IInv, Books

LEMMA MaskInv ==
  ASSUME IInv, NEW k \in Name, SaveMask(k) \/ DeleteMask(k)
  PROVE  IInv'
<1>1. Stem(k) \in Name /\ UNCHANGED <<file, entry, val, download, job>>
  BY StemName DEF SaveMask, DeleteMask
<1>2. Books'
  BY <1>1 DEF IInv, Books, OriginKnown, OriginIsOwn, WholeAlone, BadgeIsTrue
<1>3. CASE SaveMask(k)
  <2>1. file[k].there /\ file[k].geo \in 0..MaxGeo
    BY <1>3, TypeParts DEF SaveMask, IInv
  <2>2. \A s \in Name : mask'[s] = IF s = Stem(k) THEN file[k].geo ELSE mask[s]
    BY <1>1, <1>3 DEF SaveMask, IInv, TypeInvariant
  <2>3. TypeInvariant'
    BY <1>1, <1>3, <2>1 DEF SaveMask, IInv, TypeInvariant
  <2>4. MaskOwned'
    BY <1>1, <2>1, <2>2 DEF IInv, MaskOwned, Books, OriginKnown
  <2>5. MaskFits'
    <3> SUFFICES ASSUME NEW n \in Name, file[n].there, mask'[Stem(n)] # NoMask
                 PROVE  mask'[Stem(n)] = file[n].geo
      BY <1>1 DEF MaskFits
    <3>1. CASE Stem(n) = Stem(k)
      <4>1. n = k
        BY <2>1, <3>1, StemShared DEF IInv, Books, OriginKnown, WholeAlone
      <4> QED  BY <1>1, <2>2, <4>1
    <3>2. CASE Stem(n) # Stem(k)
      BY <2>2, <3>2, StemName DEF IInv, MaskFits
    <3> QED  BY <3>1, <3>2
  <2> QED  BY <1>2, <2>3, <2>4, <2>5 DEF IInv
<1>4. CASE DeleteMask(k)
  <2>1. \A s \in Name : mask'[s] = IF s = Stem(k) THEN NoMask ELSE mask[s]
    BY <1>1, <1>4 DEF DeleteMask, IInv, TypeInvariant
  <2>2. TypeInvariant'
    BY <1>1, <1>4 DEF DeleteMask, IInv, TypeInvariant
  <2>3. MaskOwned' /\ MaskFits'
    BY <1>1, <2>1, StemName DEF IInv, MaskOwned, MaskFits
  <2> QED  BY <1>2, <2>2, <2>3 DEF IInv
<1> QED  BY <1>3, <1>4

--------------------------------------------------------------------------------
(* The job *)

LEMMA TickType == ASSUME IInv, NEW k \in Name, Tick(k) PROVE job' \in Job
<1>1. NoJob \in Job /\ job \in Job
  BY DEF NoJob, Job, IInv, TypeInvariant
<1>2. [job EXCEPT !.todo = @ \ {k}] \in Job
  BY <1>1 DEF Job
<1> QED  BY <1>1, <1>2 DEF Tick

LEMMA UpscaleInv ==
  ASSUME IInv, NEW k \in Name, Upscale(k)
  PROVE  IInv'
<1> DEFINE new == [there |-> TRUE, geo |-> file[k].geo + 1, touched |-> TRUE]
<1>1. file[k].there /\ file[k].geo + 1 \in 0..MaxGeo
  BY TypeParts, TrainBoundAssumption DEF Upscale, IInv
<1>2. OriginOf(k) = k[1] /\ k[1] \in Originals /\ entry[k].kind = "live"
  BY <1>1, NameParts DEF OriginOf, IInv, Books, OriginKnown
<1>3. new \in Image /\ new.there /\ new.touched /\ new.geo = file[k].geo + 1
  BY <1>1 DEF Image
<1>4. file' = [file EXCEPT ![k] = new] /\ entry' = [entry EXCEPT ![k] = DoneOf(k[1])]
  BY <1>2 DEF Upscale
<1> HIDE DEF new
<1>5. \A n \in Name : /\ file'[n] = IF n = k THEN new ELSE file[n]
                      /\ entry'[n] = IF n = k THEN DoneOf(k[1]) ELSE entry[n]
  BY <1>4 DEF IInv, TypeInvariant
<1>6. Stem(k) \in Name
  BY StemName
<1>7. /\ mask' \in [Name -> {NoMask} \cup 0..MaxGeo]
      /\ \A s \in Name : mask'[s] = IF s = Stem(k) /\ mask[s] # NoMask
                                    THEN file[k].geo + 1 ELSE mask[s]
  BY <1>1, <1>6 DEF Upscale, ScaledMask, IInv, TypeInvariant
<1>8. TypeInvariant'
  <2>1. file' \in [Name -> Image]
    BY <1>3, <1>4 DEF IInv, TypeInvariant
  <2>2. entry' \in [Name -> Entry]
    BY <1>2, <1>4, Values DEF IInv, TypeInvariant
  <2> QED  BY <1>7, <2>1, <2>2, TickType DEF IInv, TypeInvariant, Upscale
<1>9. OriginKnown' /\ OriginIsOwn' /\ BadgeIsTrue'
  BY <1>3, <1>5 DEF IInv, Books, OriginKnown, OriginIsOwn, BadgeIsTrue, DoneOf
<1>10. WholeAlone'
  <2>1. \A n \in Name : /\ file'[n].there <=> file[n].there
                        /\ entry'[n].kind # "none" <=> entry[n].kind # "none"
    BY <1>1, <1>2, <1>3, <1>5 DEF DoneOf
  <2> QED  BY <2>1 DEF IInv, Books, WholeAlone
<1>11. MaskOwned'
  <2>1. \A s \in Name : mask'[s] # NoMask => mask[s] # NoMask
    BY <1>7
  <2>2. \A n \in Name : entry[n].kind # "none" => entry'[n].kind # "none"
    BY <1>5 DEF DoneOf
  <2> QED  BY <2>1, <2>2 DEF IInv, MaskOwned
<1>12. MaskFits'
  <2> SUFFICES ASSUME NEW n \in Name, file'[n].there, mask'[Stem(n)] # NoMask
               PROVE  mask'[Stem(n)] = file'[n].geo
    BY DEF MaskFits
  <2>1. CASE n = k
    BY <1>3, <1>5, <1>6, <1>7, <2>1
  <2>2. CASE n # k
    <3>1. file[n].there /\ file'[n] = file[n]
      BY <1>5, <2>2
    <3>2. Stem(n) # Stem(k)
      BY <1>1, <1>2, <2>2, <3>1, StemShared DEF IInv, Books, WholeAlone
    <3> QED  BY <1>7, <3>1, <3>2, StemName DEF IInv, MaskFits
  <2> QED  BY <2>1, <2>2
<1> QED  BY <1>8, <1>9, <1>10, <1>11, <1>12 DEF IInv, Books

LEMMA CropInv ==
  ASSUME IInv, NEW k \in Name, Crop(k)
  PROVE  IInv'
<1> DEFINE new == [there |-> TRUE, geo |-> file[k].geo + 1, touched |-> TRUE]
<1>1. file[k].there /\ file[k].geo + 1 \in 0..MaxGeo
  BY TypeParts, TrainBoundAssumption DEF Crop, IInv
<1>2. PICK outs \in Outputs(k) :
        file' = Cut(k, outs) /\ mask' = CutMask(k, outs) /\ Replaced(k, outs)
  BY DEF Crop
<1>3. /\ \A n \in outs : n \in Name /\ n[1] = k[1]
      /\ \/ outs = {AsPng(k)}
         \/ k[2] \notin Pieces /\ (\A n \in outs : n[2] \in Pieces)
  BY OutputNames
<1>4. entry' \in [Name -> Entry]
      /\ \A n \in Name : entry'[n] = IF n \in outs THEN DoneOf(k[1])
                                     ELSE IF n = k THEN NoEntry ELSE entry[n]
  BY <1>1, <1>2, <1>3, ReplacedAt
<1>5. entry[k].kind = "live" /\ k[1] \in Originals
  BY <1>1, NameParts DEF IInv, Books, OriginKnown
<1>6. new \in Image /\ new.there /\ new.touched /\ new.geo = file[k].geo + 1
  BY <1>1 DEF Image
<1>7. file' = [n \in Name |-> IF n \in Stale(k, outs) THEN NoFile
                              ELSE IF n \in outs THEN new ELSE file[n]]
  BY <1>2 DEF Cut, Without, Written
<1> HIDE DEF new
<1>8. \A n \in Name : file'[n] = IF n \in outs THEN new
                                 ELSE IF n = k \/ n = AsPng(k) THEN NoFile ELSE file[n]
  BY <1>7 DEF Stale
\* No whole image but k, under either of its names, is an image of k's original.
<1>9. \A n \in Name : file[n].there /\ n[1] = k[1] /\ n[2] \notin Pieces => n = k
  BY <1>5 DEF IInv, Books, WholeAlone
<1>10. k[2] \notin Pieces => \A n \in Name : n[1] = k[1] /\ entry[n].kind # "none" => n = k
  BY <1>1 DEF IInv, Books, WholeAlone
<1>11. Stem(k) \in Name
  BY StemName
<1>12. mask[Stem(k)] # NoMask => mask[Stem(k)] = file[k].geo
  BY <1>1 DEF IInv, MaskFits
<1>13. \A s \in Name : mask'[s] = IF mask[Stem(k)] = NoMask THEN mask[s]
                                  ELSE IF s \in Masks(outs) THEN file[k].geo + 1
                                  ELSE IF s = Stem(k) THEN NoMask ELSE mask[s]
  BY <1>2, <1>12 DEF CutMask
<1>14. TypeInvariant'
  <2>1. file' \in [Name -> Image]
    BY <1>6, <1>7, Values DEF IInv, TypeInvariant
  <2>2. mask' \in [Name -> {NoMask} \cup 0..MaxGeo]
    BY <1>1, <1>2, <1>12 DEF CutMask, IInv, TypeInvariant
  <2> QED  BY <1>4, <2>1, <2>2, TickType DEF IInv, TypeInvariant, Crop
<1>15. OriginKnown' /\ OriginIsOwn' /\ BadgeIsTrue'
  <2>1. \A n \in outs : /\ entry'[n].kind = "live" /\ entry'[n].origin = n[1]
                        /\ entry'[n].processed <=> file'[n].touched
    BY <1>3, <1>4, <1>6, <1>8 DEF DoneOf
  <2>2. \A n \in Name \ outs : file'[n].there => file'[n] = file[n] /\ entry'[n] = entry[n]
    BY <1>4, <1>8 DEF NoFile
  <2>3. \A n \in Name \ outs : entry'[n].kind # "none" => entry'[n] = entry[n]
    BY <1>4 DEF NoEntry
  <2>4. OriginKnown' /\ OriginIsOwn'
    BY <2>1, <2>2, <2>3 DEF IInv, Books, OriginKnown, OriginIsOwn
  <2>5. BadgeIsTrue'
    BY <2>1, <2>2 DEF IInv, Books, BadgeIsTrue
  <2> QED  BY <2>4, <2>5
<1>16. WholeAlone'
  <2> SUFFICES ASSUME NEW w \in Name, NEW n \in Name, file'[w].there, w[2] \notin Pieces,
                      entry'[n].kind # "none", n[1] = w[1]
               PROVE  n = w
    BY DEF WholeAlone
  <2>1. CASE w[1] = k[1]
    <3>1. w \in outs
      BY <1>8, <1>9, <2>1 DEF NoFile
    <3>2. outs = {w} /\ k[2] \notin Pieces
      BY <1>3, <3>1, AsPngName
    <3> QED  BY <1>4, <1>10, <2>1, <3>2 DEF NoEntry
  <2>2. CASE w[1] # k[1]
    BY <1>3, <1>4, <1>8, <2>2, AsPngName DEF IInv, Books, WholeAlone
  <2> QED  BY <2>1, <2>2
<1>17. MaskOwned'
  <2> SUFFICES ASSUME NEW s \in Name, mask'[s] # NoMask
               PROVE  \E n \in Name : entry'[n].kind # "none" /\ Stem(n) = s
    BY DEF MaskOwned
  <2>1. CASE s \in Masks(outs)
    BY <1>3, <1>4, <2>1 DEF Masks, DoneOf
  <2>2. CASE s \notin Masks(outs)
    <3>1. s # Stem(k) /\ mask[s] # NoMask
      BY <1>13, <2>2
    <3>2. PICK n \in Name : entry[n].kind # "none" /\ Stem(n) = s
      BY <3>1 DEF IInv, MaskOwned
    <3> QED  BY <1>4, <3>1, <3>2 DEF DoneOf
  <2> QED  BY <2>1, <2>2
<1>18. MaskFits'
  <2> SUFFICES ASSUME NEW n \in Name, file'[n].there, mask'[Stem(n)] # NoMask
               PROVE  mask'[Stem(n)] = file'[n].geo
    BY DEF MaskFits
  <2>1. Stem(n) \in Name
    BY StemName
  <2>2. CASE n \in outs
    <3>1. mask[Stem(k)] # NoMask
      <4>1. CASE outs = {AsPng(k)}
        BY <1>11, <1>13, <2>2, <4>1, AsPngName
      <4>2. CASE k[2] \notin Pieces /\ n[2] \in Pieces
        <5>1. Stem(n) = n /\ n[1] = k[1]
          BY <1>3, <2>2, <4>2, StemName
        <5>2. ASSUME mask[Stem(n)] # NoMask PROVE FALSE
          <6>1. PICK m \in Name : entry[m].kind # "none" /\ Stem(m) = Stem(n)
            BY <2>1, <5>2 DEF IInv, MaskOwned
          <6>2. m = n
            BY <4>2, <6>1, StemShared
          <6> QED  BY <1>10, <4>2, <5>1, <6>1, <6>2
        <5> QED  BY <1>13, <2>1, <5>2
      <4> QED  BY <1>3, <2>2, <4>1, <4>2
    <3>2. Stem(n) \in Masks(outs)
      BY <2>2 DEF Masks
    <3> QED  BY <1>6, <1>8, <1>13, <2>1, <2>2, <3>1, <3>2
  <2>3. CASE n \notin outs
    <3>1. n # k /\ n # AsPng(k) /\ file'[n] = file[n] /\ file[n].there
      BY <1>8, <2>3 DEF NoFile
    <3>2. Stem(n) # Stem(k)
      BY <1>9, <3>1, StemShared
    <3>3. Stem(n) \notin Masks(outs)
      <4> SUFFICES ASSUME NEW m \in outs, Stem(m) = Stem(n) PROVE FALSE
        BY DEF Masks
      <4>1. m \in Name /\ m[1] = k[1] /\ n[1] = k[1] /\ n[2] \notin Pieces
        BY <1>3, <2>3, StemShared
      <4> QED  BY <1>9, <3>1, <4>1
    <3> QED  BY <1>13, <2>1, <3>1, <3>2, <3>3 DEF IInv, MaskFits
  <2> QED  BY <2>2, <2>3
<1> QED  BY <1>14, <1>15, <1>16, <1>17, <1>18 DEF IInv, Books

--------------------------------------------------------------------------------
(* The induction *)

\* What changes only the held-out images, download/ or the job.
LEMMA Apart ==
  ASSUME IInv, UNCHANGED <<file, entry, mask>>,
         val' \subseteq Name, download' \subseteq Originals, job' \in Job
  PROVE  IInv'
<1>1. TypeInvariant'
  BY DEF IInv, TypeInvariant
<1>2. Books' /\ MaskOwned' /\ MaskFits'
  BY DEF IInv, Books, OriginKnown, OriginIsOwn, WholeAlone, BadgeIsTrue, MaskOwned, MaskFits
<1> QED  BY <1>1, <1>2 DEF IInv

LEMMA CurateInv ==
  ASSUME IInv, NEW o \in Originals, Curate(o)
  PROVE  IInv'
<1>1. CASE CopyToTrain(o)      BY <1>1, CopyInv
<1>2. CASE RemoveFromTrain(o)  BY <1>2, RemoveInv
<1>3. CASE CopyToValidation(o)
  BY <1>3, OwnName, Apart DEF CopyToValidation, IInv, TypeInvariant
<1>4. CASE LoseOriginal(o)
  BY <1>4, Apart DEF LoseOriginal, IInv, TypeInvariant
<1> QED  BY <1>1, <1>2, <1>3, <1>4 DEF Curate

LEMMA EditInv ==
  ASSUME IInv, NEW k \in Name, Edit(k)
  PROVE  IInv'
<1>1. CASE RemoveFromValidation(k)
  BY <1>1, Apart DEF RemoveFromValidation, IInv, TypeInvariant
<1>2. CASE MarkDuplicate(k)  BY <1>2, MarkInv
<1>3. CASE Restore(k)        BY <1>3, RestoreInv
<1>4. CASE Inpaint(k)        BY <1>4, InpaintInv
<1>5. CASE SaveMask(k)       BY <1>5, MaskInv
<1>6. CASE DeleteMask(k)     BY <1>6, MaskInv
<1> QED  BY <1>1, <1>2, <1>3, <1>4, <1>5, <1>6 DEF Edit

LEMMA WorkInv ==
  ASSUME IInv, NEW k \in Name, Work(k)
  PROVE  IInv'
<1>1. CASE Crop(k)     BY <1>1, CropInv
<1>2. CASE Upscale(k)  BY <1>2, UpscaleInv
<1>3. CASE PassOver(k)
  BY <1>3, TickType, Apart DEF PassOver, IInv, TypeInvariant
<1> QED  BY <1>1, <1>2, <1>3 DEF Work

LEMMA StepInv == IInv /\ [Next]_vars => IInv'
<1> SUFFICES ASSUME IInv, [Next]_vars PROVE IInv'
  OBVIOUS
<1>1. CASE \E o \in Originals : Curate(o)     BY <1>1, CurateInv
<1>2. CASE \E k \in Name : Edit(k) \/ Work(k)  BY <1>2, EditInv, WorkInv
<1>3. ASSUME NEW S \in SUBSET Name, Split(S) PROVE IInv'
  BY <1>3, SplitInv
<1>4. ASSUME NEW S \in SUBSET Name, NEW kind \in {"crop", "upscale"}, StartJob(kind, S)
      PROVE  IInv'
  <2>1. job' \in Job
    BY <1>4 DEF StartJob, Job
  <2> QED  BY <1>4, <2>1, Apart DEF StartJob, IInv, TypeInvariant
<1>5. CASE StopJob
  <2>1. NoJob \in Job
    BY DEF NoJob, Job
  <2> QED  BY <1>5, <2>1, Apart DEF StopJob, IInv, TypeInvariant
<1>6. CASE UNCHANGED vars
  BY <1>6, Apart DEF vars, IInv, TypeInvariant
<1> QED  BY <1>1, <1>2, <1>3, <1>4, <1>5, <1>6 DEF Next

LEMMA Inductive == Spec => []IInv
  BY InitInv, StepInv, PTL DEF Spec

--------------------------------------------------------------------------------
(* The theorems *)

\* Every variable has its type: no cut or scaling of a mask leaves its range.
THEOREM TrainSetTyped == Spec => []TypeInvariant
<1>1. IInv => TypeInvariant  BY DEF IInv
<1> QED  BY <1>1, Inductive, PTL

\* Every training image can be traced to its original, and no tombstone has an image.
THEOREM ImagesTraced == Spec => []OriginKnown
<1>1. IInv => OriginKnown  BY DEF IInv, Books
<1> QED  BY <1>1, Inductive, PTL

\* No original is in the training set both whole and in pieces, or under two names.
THEOREM OneCopy == Spec => []OneCopyEach
<1>1. IInv => OneCopyEach
  <2> SUFFICES ASSUME IInv, NEW j \in Name, NEW k \in Name,
                      file[j].there, file[k].there, j[1] = k[1], j[2] \notin Pieces \/ k[2] \notin Pieces
               PROVE  j = k
    BY DEF OneCopyEach
  <2> QED  BY DEF IInv, Books, OriginKnown, WholeAlone
<1> QED  BY <1>1, Inductive, PTL

\* No training image lies beside a mask of another size.
THEOREM MasksFit == Spec => []MaskFits
<1>1. IInv => MaskFits  BY DEF IInv
<1> QED  BY <1>1, Inductive, PTL

\* The badge "processed" is true to the image.
THEOREM BadgesTrue == Spec => []BadgeIsTrue
<1>1. IInv => BadgeIsTrue  BY DEF IInv, Books
<1> QED  BY <1>1, Inductive, PTL

--------------------------------------------------------------------------------
(* What a step may never do *)

RemovalStep ==
  \A o \in Originals, k \in Name :
    entry[k].kind = "removed" /\ entry[k].origin = o /\ entry'[k].kind # "removed" =>
      LET left == {n \in Name : entry'[n].kind # "none" /\ entry'[n].origin = o}
      IN  left = {} \/ (left = {Own(o)} /\ file'[Own(o)] = Fresh)

\* An edit or a crop of an image never writes over the name of a tombstone.
LEMMA NoTombstoneAt ==
  ASSUME IInv, NEW k \in Name, file[k].there, NEW outs \in Outputs(k), NEW n \in outs
  PROVE  n \in Name /\ entry[n].kind # "removed" /\ entry[k].kind # "removed"
<1>1. entry[k].kind = "live" /\ n \in Name /\ n[1] = k[1]
  BY OutputNames DEF IInv, Books, OriginKnown
<1>2. CASE n = k
  BY <1>1, <1>2
<1>3. CASE n # k
  <2>1. k[2] \notin Pieces
    BY <1>3, OutputNames, AsPngName
  <2> QED  BY <1>1, <1>3, <2>1 DEF IInv, Books, WholeAlone
<1> QED  BY <1>2, <1>3

LEMMA RemovalStepKept == IInv /\ Next => RemovalStep
<1> SUFFICES ASSUME IInv, Next, NEW u \in Originals, NEW t \in GroupOf(u),
                    entry[t].kind = "removed", entry'[t].kind # "removed"
             PROVE  GroupOf(u)' = {} \/ (GroupOf(u)' = {Own(u)} /\ file'[Own(u)] = Fresh)
  BY DEF RemovalStep, GroupOf
<1>1. t \in Name /\ u = t[1]
  BY GroupIsOwn
<1>2. ASSUME NEW o \in Originals, CopyToTrain(o) PROVE FALSE
  BY <1>1, <1>2, OwnName, UnknownIsAbsent DEF CopyToTrain, IInv, TypeInvariant
<1>3. ASSUME NEW o \in Originals, RemoveFromTrain(o) PROVE GroupOf(u)' = {}
  <2>1. \A n \in Name : entry'[n] = IF n \in GroupOf(o) THEN NoEntry ELSE entry[n]
    BY <1>3 DEF RemoveFromTrain, Without
  <2>2. t \in GroupOf(o)
    BY <1>1, <2>1
  <2>3. u = o
    BY <1>1, <2>2, GroupIsOwn
  <2>4. \A n \in Name : entry'[n].kind # "none" => entry'[n].origin # u
    BY <2>1, <2>3, GroupIsOwn DEF NoEntry, GroupOf
  <2> QED  BY <2>4 DEF GroupOf
<1>4. ASSUME NEW k \in Name, MarkDuplicate(k) PROVE FALSE
  BY <1>1, <1>4 DEF MarkDuplicate, IInv, TypeInvariant
<1>5. ASSUME NEW k \in Name, Restore(k)
      PROVE  GroupOf(u)' = {Own(u)} /\ file'[Own(u)] = Fresh
  <2> DEFINE o == entry[k].origin
  <2>1. o \in Originals /\ Own(o) \in Name /\ Own(o)[1] = o
    BY <1>5, OwnName DEF Restore, IInv, TypeInvariant
  <2>2. \A n \in Name : /\ file'[n] = IF n = Own(o) THEN Fresh
                                      ELSE IF n \in GroupOf(o) THEN NoFile ELSE file[n]
                        /\ entry'[n] = IF n = Own(o) THEN FreshOf(o)
                                       ELSE IF n \in GroupOf(o) THEN NoEntry ELSE entry[n]
    BY <1>5, <2>1 DEF Restore, Restored, Without
  <2> HIDE DEF o
  <2>3. u = o
    BY <1>1, <2>1, <2>2, GroupIsOwn
  <2>4. entry'[Own(u)] = FreshOf(u) /\ file'[Own(u)] = Fresh
    BY <2>1, <2>2, <2>3
  <2>5. \A n \in Name : n # Own(u) /\ entry'[n].kind # "none" => entry'[n].origin # u
    BY <2>2, <2>3 DEF GroupOf, NoEntry
  <2>6. GroupOf(u)' = {Own(u)}
    BY <2>1, <2>3, <2>4, <2>5 DEF GroupOf, FreshOf
  <2> QED  BY <2>4, <2>6
<1>6. ASSUME NEW k \in Name, Inpaint(k) PROVE FALSE
  <2>1. file[k].there /\ {AsPng(k)} \in Outputs(k)
    BY <1>6 DEF Inpaint, Outputs
  <2>2. \A n \in Name \ {k, AsPng(k)} : entry'[n] = entry[n]
    BY <1>6 DEF Inpaint, Replaced
  <2>3. entry[k].kind = "live"
    BY <2>1 DEF IInv, Books, OriginKnown
  <2> QED  BY <1>1, <2>1, <2>2, <2>3, NoTombstoneAt
<1>7. ASSUME NEW k \in Name, Crop(k) PROVE FALSE
  <2>1. PICK outs \in Outputs(k) : Replaced(k, outs)
    BY <1>7 DEF Crop
  <2>2. file[k].there
    BY <1>7 DEF Crop
  <2>3. \A n \in Name : n \notin outs /\ n # k => entry'[n] = entry[n]
    BY <2>1 DEF Replaced
  <2>4. entry[k].kind = "live"
    BY <2>2 DEF IInv, Books, OriginKnown
  <2> QED  BY <1>1, <2>2, <2>3, <2>4, NoTombstoneAt
<1>8. ASSUME NEW k \in Name, Upscale(k) PROVE FALSE
  <2>1. file[k].there /\ entry' = [entry EXCEPT ![k] = DoneOf(OriginOf(k))]
    BY <1>8 DEF Upscale
  <2> QED  BY <1>1, <2>1 DEF IInv, TypeInvariant, Books, OriginKnown
<1>9. entry' # entry
  OBVIOUS
<1> QED
  BY <1>2, <1>3, <1>4, <1>5, <1>6, <1>7, <1>8, <1>9
  DEF Next, Curate, Edit, Work, CopyToValidation, LoseOriginal, RemoveFromValidation,
      SaveMask, DeleteMask, PassOver, Split, StartJob, StopJob

\* No job and no edit of another image undoes the review of duplicates.
THEOREM ReviewKept == Spec => RemovalIsKept
<1>1. IInv /\ [Next]_vars => [RemovalStep]_vars
  BY RemovalStepKept
<1> QED  BY <1>1, Inductive, PTL DEF Spec, RemovalIsKept, RemovalStep

LossStep ==
  \A o \in Originals : InTrain(o) /\ ~InTrain(o)' =>
    /\ job' = job
    /\ \/ GroupOf(o)' = {}
       \/ \E k \in Name : k[1] = o /\ entry[k].kind = "live" /\ entry'[k].kind = "removed"
       \/ \E k \in val' \ val : k[1] = o

\* A crop writes at least one image.
LEMMA OutputSome == ASSUME NEW k \in Name, NEW outs \in Outputs(k) PROVE \E n : n \in outs
<1>1. CASE outs = {AsPng(k)}
  BY <1>1
<1>2. CASE outs # {AsPng(k)}
  <2>1. PICK fan \in Fans : outs = {k[1]} \X fan
    BY <1>2 DEF Outputs
  <2>2. PICK x : x \in fan
    <3>1. Cardinality(fan) > 1 /\ Cardinality({}) = 0
      BY FanAssumption, FS_EmptySet
    <3>2. fan # {}
      BY <3>1
    <3> QED  BY <3>2
  <2>3. <<k[1], x>> \in outs
    BY <2>1, <2>2
  <2> QED  BY <2>3
<1> QED  BY <1>1, <1>2

LEMMA LossStepKept == IInv /\ Next => LossStep
<1> SUFFICES ASSUME IInv, Next, NEW o \in Originals, InTrain(o), ~InTrain(o)'
             PROVE  /\ job' = job
                    /\ \/ GroupOf(o)' = {}
                       \/ \E k \in Name : /\ k[1] = o
                                          /\ entry[k].kind = "live" /\ entry'[k].kind = "removed"
                       \/ \E k \in val' \ val : k[1] = o
  BY DEF LossStep
<1>1. PICK w \in Name : w[1] = o /\ file[w].there /\ entry[w].kind = "live"
  BY DEF InTrain, IInv, Books, OriginKnown
<1>2. \A n \in Name : n[1] = o => ~file'[n].there
  BY DEF InTrain
<1>3. file'[w] # file[w]
  BY <1>1, <1>2
<1>4. ASSUME NEW p \in Originals, CopyToTrain(p) PROVE FALSE
  BY <1>1, <1>3, <1>4 DEF CopyToTrain, IInv, TypeInvariant
<1>5. ASSUME NEW p \in Originals, RemoveFromTrain(p) PROVE GroupOf(o)' = {} /\ job' = job
  <2> DEFINE gone == IF GroupOf(p) # {} THEN GroupOf(p) ELSE {Own(p)}
  <2>1. \A n \in Name : /\ file'[n] = IF n \in gone THEN NoFile ELSE file[n]
                        /\ entry'[n] = IF n \in GroupOf(p) THEN NoEntry ELSE entry[n]
    BY <1>5 DEF RemoveFromTrain, Without
  <2>2. w[1] = p
    BY <1>3, <2>1, GroupIsOwn, OwnName
  <2>3. \A n \in Name : entry'[n].kind # "none" => entry'[n].origin # o
    BY <1>1, <2>1, <2>2, GroupIsOwn DEF NoEntry, GroupOf
  <2>4. GroupOf(o)' = {}
    BY <2>3 DEF GroupOf
  <2>5. job' = job
    BY <1>5 DEF RemoveFromTrain
  <2> QED  BY <2>4, <2>5
<1>6. ASSUME NEW k \in Name, MarkDuplicate(k)
      PROVE  /\ job' = job
             /\ k[1] = o /\ entry[k].kind = "live" /\ entry'[k].kind = "removed"
  BY <1>1, <1>3, <1>6 DEF MarkDuplicate, IInv, TypeInvariant
<1>7. ASSUME NEW k \in Name, Restore(k) PROVE FALSE
  <2> DEFINE p == entry[k].origin
  <2>1. p \in Originals /\ Own(p) \in Name /\ Own(p)[1] = p
    BY <1>7, OwnName DEF Restore, IInv, TypeInvariant
  <2>2. \A n \in Name : file'[n] = IF n = Own(p) THEN Fresh
                                   ELSE IF n \in GroupOf(p) THEN NoFile ELSE file[n]
    BY <1>7, <2>1 DEF Restore, Restored, Without
  <2> HIDE DEF p
  <2>3. w[1] = p
    BY <1>3, <2>1, <2>2, GroupIsOwn
  <2>4. file'[Own(p)].there
    BY <2>1, <2>2 DEF Fresh
  <2> QED  BY <1>1, <1>2, <2>1, <2>3, <2>4
<1>8. ASSUME NEW k \in Name, Inpaint(k) PROVE FALSE
  <2>1. AsPng(k) \in Name /\ AsPng(k)[1] = k[1]
    BY AsPngName
  <2>2. file'[AsPng(k)] = [file[k] EXCEPT !.touched = TRUE]
    BY <1>8, <2>1 DEF Inpaint, Without, IInv, TypeInvariant
  <2>3. file'[AsPng(k)].there
    BY <1>8, <2>2, TypeParts DEF Inpaint, IInv, Image
  <2>4. \A n \in Name : n # k /\ n # AsPng(k) => file'[n] = file[n]
    BY <1>8, <2>1 DEF Inpaint, Without
  <2> QED  BY <1>1, <1>2, <1>3, <2>1, <2>3, <2>4
<1>9. ASSUME NEW k \in Name, Crop(k) PROVE FALSE
  <2>1. PICK outs \in Outputs(k) : file' = Cut(k, outs)
    BY <1>9 DEF Crop
  <2>2. PICK n \in outs : TRUE
    BY OutputSome
  <2>3. n \in Name /\ n[1] = k[1]
    BY OutputNames
  <2>4. file'[n].there
    BY <2>1, <2>2, <2>3 DEF Cut, Without, Written, Stale
  <2>5. k[1] # o
    BY <1>2, <2>3, <2>4
  <2>6. \A m \in Name : m[1] # k[1] => file'[m] = file[m]
    BY <2>1, OutputNames, AsPngName DEF Cut, Without, Written, Stale
  <2> QED  BY <1>1, <1>3, <2>5, <2>6
<1>10. ASSUME NEW k \in Name, Upscale(k) PROVE FALSE
  <2> DEFINE new == [there |-> TRUE, geo |-> file[k].geo + 1, touched |-> TRUE]
  <2>1. new.there /\ file' = [file EXCEPT ![k] = new]
    BY <1>10 DEF Upscale
  <2> HIDE DEF new
  <2> QED  BY <1>1, <1>2, <1>3, <2>1 DEF IInv, TypeInvariant
<1>11. ASSUME NEW S \in SUBSET Name, Split(S) PROVE job' = job /\ \E k \in val' \ val : k[1] = o
  <2>1. w \in S \ val /\ val' = val \cup S
    BY <1>3, <1>11 DEF Split, Without
  <2> QED  BY <1>1, <1>11, <2>1 DEF Split
<1>12. file' # file
  BY <1>3
<1> QED
  BY <1>4, <1>5, <1>6, <1>7, <1>8, <1>9, <1>10, <1>11, <1>12
  DEF Next, Curate, Edit, Work, CopyToValidation, LoseOriginal, RemoveFromValidation,
      SaveMask, DeleteMask, PassOver, StartJob, StopJob

\* Whatever the list of a job still says, no image is lost by a job.
THEOREM NoneLost == Spec => NothingLost
<1>1. IInv /\ [Next]_vars => [LossStep]_vars
  BY LossStepKept
<1> QED  BY <1>1, Inductive, PTL DEF Spec, NothingLost, LossStep
================================================================================
