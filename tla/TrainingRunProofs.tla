--------------------------- MODULE TrainingRunProofs ---------------------------
(***************************************************************************)
(* The books of a training run hold for any settings, any number of processes *)
(* and any number of NaNs.  The strengthening says, for every place a process  *)
(* can be in, what its weights are made of, that a recovery point lies between *)
(* two gradient groups, and how the backup on disk relates to the process.     *)
(***************************************************************************)
EXTENDS TrainingRun, FiniteSetTheorems, SequenceTheorems, TLAPS

--------------------------------------------------------------------------------
(* Quotients and remainders *)

LEMMA DivUnique ==
  ASSUME NEW n \in Nat, NEW g \in Nat \ {0}, NEW q \in Nat, NEW r \in 0..(g - 1), n = g * q + r
  PROVE  n \div g = q /\ n % g = r
BY SMT

LEMMA DivMod ==
  ASSUME NEW n \in Nat, NEW g \in Nat \ {0}
  PROVE  \E q \in Nat, r \in 0..(g - 1) : n = g * q + r /\ n \div g = q /\ n % g = r
<1>1. n \div g \in Nat
  BY SMT
<1>2. n % g \in 0..(g - 1)
  BY SMT
<1>3. n = g * (n \div g) + (n % g)
  BY SMT
<1>4. QED
  BY <1>1, <1>2, <1>3

\* Counting on by one opens a new window exactly at a multiple of its length.
LEMMA NextDiv ==
  ASSUME NEW n \in Nat, NEW g \in Nat \ {0}
  PROVE  /\ n \div g \in Nat /\ (n + 1) \div g \in Nat
         /\ (n + 1) \div g = IF (n + 1) % g = 0 THEN n \div g + 1 ELSE n \div g
<1>1. PICK q \in Nat, r \in 0..(g - 1) : n = g * q + r /\ n \div g = q /\ n % g = r
  BY DivMod
<1>2. CASE r = g - 1
  <2>1. n + 1 = g * (q + 1) + 0 /\ q + 1 \in Nat /\ 0 \in 0..(g - 1)
    BY <1>1, <1>2
  <2>2. QED
    BY <1>1, <2>1, DivUnique
<1>3. CASE r < g - 1
  <2>1. n + 1 = g * q + (r + 1) /\ r + 1 \in 0..(g - 1) /\ r + 1 # 0
    BY <1>1, <1>3
  <2>2. QED
    BY <1>1, <2>1, DivUnique
<1>4. QED
  BY <1>2, <1>3

\* The groups of n + 1 batches: the full ones before the last batch, and its own.
LEMMA CeilUp ==
  ASSUME NEW n \in Nat, NEW g \in Nat \ {0}
  PROVE  Ceil(n + 1, g) = n \div g + 1
<1>1. PICK q \in Nat, r \in 0..(g - 1) : n = g * q + r /\ n \div g = q /\ n % g = r
  BY DivMod
<1>2. n + 1 + g - 1 = g * (q + 1) + r /\ q + 1 \in Nat /\ n + 1 + g - 1 \in Nat
  BY <1>1
<1>3. (n + 1 + g - 1) \div g = q + 1
  BY <1>2, DivUnique
<1>4. QED
  BY <1>1, <1>3 DEF Ceil

\* At a multiple of the window the groups are the full windows.
LEMMA CeilAtWindow ==
  ASSUME NEW n \in Nat, NEW g \in Nat \ {0}, n % g = 0
  PROVE  Ceil(n, g) = n \div g
<1>1. PICK q \in Nat, r \in 0..(g - 1) : n = g * q + r /\ n \div g = q /\ n % g = r
  BY DivMod
<1>2. n + g - 1 = g * q + (g - 1) /\ g - 1 \in 0..(g - 1) /\ n + g - 1 \in Nat
  BY <1>1
<1>3. QED
  BY <1>1, <1>2, DivUnique DEF Ceil

--------------------------------------------------------------------------------
(* The settings and the batches they make *)

LEMMA ArgsTyped ==
  ASSUME args \in Settings
  PROVE  /\ args.epochs \in Nat \ {0} /\ args.grad_accum \in Nat \ {0} /\ args.max_steps \in Nat
         /\ args.save_state_every_steps \in Nat /\ args.save_state_every_epochs \in Nat
         /\ args.ema_start \in Nat /\ args # NoConfig
         /\ \A e \in 0..(args.epochs - 1) : Packs(e) \in Nat \ {0}
BY SettingsAssumption DEF SettingsRecord, NoConfig, Packs

LEMMA BatchForm ==
  ASSUME args \in Settings, NEW b
  PROVE  b \in Batches <=>
           \E e \in 0..(args.epochs - 1), n \in Nat : n < Packs(e) /\ b = <<e, n>>
<1>1. b \in Batches <=> \E e \in 0..(args.epochs - 1) : \E n \in 0..(Packs(e) - 1) : b = <<e, n>>
  BY DEF Batches
<1>2. \A e \in 0..(args.epochs - 1) : Packs(e) \in Nat
  BY ArgsTyped
<1>3. QED
  BY <1>1, <1>2

\* The next batch is a new one.
LEMMA BeforeNext ==
  ASSUME args \in Settings, NEW e \in 0..(args.epochs - 1), NEW n \in 0..(Packs(e) - 1)
  PROVE  /\ <<e, n>> \in Batches /\ <<e, n>> \notin Before(e, n)
         /\ Before(e, n + 1) = Before(e, n) \cup {<<e, n>>}
<1>1. Packs(e) \in Nat /\ n \in Nat /\ e \in Nat
  BY ArgsTyped
<1>2. <<e, n>> \in Batches
  BY <1>1, BatchForm
<1>3. <<e, n>> \notin Before(e, n)
  BY <1>1 DEF Before
<1>4. ASSUME NEW b \in Batches
      PROVE  b \in Before(e, n + 1) <=> b \in Before(e, n) \/ b = <<e, n>>
  <2>1. PICK f \in 0..(args.epochs - 1), m \in Nat : m < Packs(f) /\ b = <<f, m>>
    BY BatchForm
  <2>2. f \in Nat /\ m \in Nat /\ b[1] = f /\ b[2] = m
    BY <2>1, ArgsTyped
  <2>3. m < n + 1 <=> m < n \/ m = n
    BY <1>1, <2>2
  <2>4. QED
    BY <2>1, <2>2, <2>3, <1>1 DEF Before
<1>5. QED
  BY <1>2, <1>3, <1>4 DEF Before

\* After the last batch of an epoch comes the first of the next.
LEMMA BeforeTurn ==
  ASSUME args \in Settings, NEW e \in 0..(args.epochs - 1)
  PROVE  Before(e, Packs(e)) = Before(e + 1, 0)
<1>1. ASSUME NEW b \in Batches
      PROVE  b \in Before(e, Packs(e)) <=> b \in Before(e + 1, 0)
  <2>1. PICK f \in 0..(args.epochs - 1), m \in Nat : m < Packs(f) /\ b = <<f, m>>
    BY BatchForm
  <2>2. Packs(f) \in Nat /\ f \in Nat /\ m \in Nat /\ m < Packs(f) /\ ~(m < 0) /\ e \in Nat
    BY <2>1, ArgsTyped
  <2>3. f < e + 1 <=> f < e \/ f = e
    BY <2>2
  <2>4. QED
    BY <2>1, <2>2, <2>3 DEF Before
<1>2. QED
  BY <1>1 DEF Before

\* At the start no batch has been seen, at the end all have.
LEMMA BeforeEnds ==
  ASSUME args \in Settings
  PROVE  Before(0, 0) = {} /\ Before(args.epochs, 0) = Batches
<1>1. ASSUME NEW b \in Batches
      PROVE  b \notin Before(0, 0) /\ b \in Before(args.epochs, 0)
  <2>1. PICK f \in 0..(args.epochs - 1), m \in Nat : m < Packs(f) /\ b = <<f, m>>
    BY BatchForm
  <2>2. f \in Nat /\ m \in Nat /\ f < args.epochs /\ ~(m < 0) /\ ~(f < 0)
    BY <2>1, ArgsTyped
  <2>3. QED
    BY <2>1, <2>2 DEF Before
<1>2. QED
  BY <1>1 DEF Before
--------------------------------------------------------------------------------
(* What the weights are made of *)

LEMMA GroupMember ==
  ASSUME NEW S, NEW w \in Seq(S), NEW b
  PROVE  b \in UNION Range(w) <=> \E i \in 1..Len(w) : b \in w[i]
BY LenProperties DEF Range

LEMMA GroupBatches ==
  ASSUME NEW w \in Seq(SUBSET Batches)
  PROVE  \A b \in UNION Range(w) : b \in Batches
<1>1. SUFFICES ASSUME NEW b \in UNION Range(w)
              PROVE  b \in Batches
  OBVIOUS
<1>2. PICK i \in 1..Len(w) : b \in w[i]
  BY GroupMember
<1>3. w[i] \in SUBSET Batches
  BY ElementOfSeq
<1>4. QED
  BY <1>2, <1>3

LEMMA GroupAppend ==
  ASSUME NEW S, NEW w \in Seq(S), NEW group \in S
  PROVE  /\ Append(w, group) \in Seq(S) /\ Len(Append(w, group)) = Len(w) + 1
         /\ Append(w, group)[Len(w) + 1] = group
         /\ \A i \in 1..Len(w) : Append(w, group)[i] = w[i]
         /\ UNION Range(Append(w, group)) = (UNION Range(w)) \cup group
<1>1. /\ Append(w, group) \in Seq(S) /\ Len(Append(w, group)) = Len(w) + 1
      /\ Append(w, group)[Len(w) + 1] = group
      /\ \A i \in 1..Len(w) : Append(w, group)[i] = w[i]
  BY AppendProperties, LenProperties
<1>2. ASSUME NEW b
      PROVE  b \in UNION Range(Append(w, group)) <=> b \in (UNION Range(w)) \cup group
  <2>1. Len(w) \in Nat
    BY LenProperties
  <2>2. \A i : i \in 1..(Len(w) + 1) <=> i \in 1..Len(w) \/ i = Len(w) + 1
    BY <2>1
  <2>3. b \in UNION Range(Append(w, group)) <=> \E i \in 1..(Len(w) + 1) : b \in Append(w, group)[i]
    BY <1>1, GroupMember
  <2>4. b \in UNION Range(w) <=> \E i \in 1..Len(w) : b \in w[i]
    BY GroupMember
  <2>5. QED
    BY <1>1, <2>2, <2>3, <2>4
<1>3. QED
  BY <1>1, <1>2

LEMMA BatchAppend ==
  ASSUME NEW w \in Seq(SUBSET Batches), NEW group \in SUBSET Batches
  PROVE  /\ Append(w, group) \in Seq(SUBSET Batches) /\ Len(Append(w, group)) = Len(w) + 1
         /\ Append(w, group)[Len(w) + 1] = group
         /\ \A i \in 1..Len(w) : Append(w, group)[i] = w[i]
         /\ UNION Range(Append(w, group)) = (UNION Range(w)) \cup group
BY GroupAppend

\* Nothing seen, nothing to account for.
LEMMA AccountsEmpty == Accounts(<<>>, {}, {}, {})
BY DEF Accounts, Range

\* A new batch whose gradient is pending.
LEMMA AccountsPending ==
  ASSUME NEW w \in Seq(SUBSET Batches), NEW grads, NEW lost, NEW seen, NEW b,
         Accounts(w, grads, lost, seen), b \notin seen
  PROVE  Accounts(w, grads \cup {b}, lost, seen \cup {b})
<1>1. \A i \in DOMAIN w : b \notin w[i]
  BY DEF Accounts, Range
<1>2. QED
  BY <1>1 DEF Accounts

\* A NaN takes the new batch and the gradients pending.
LEMMA AccountsLost ==
  ASSUME NEW w \in Seq(SUBSET Batches), NEW grads, NEW lost, NEW seen, NEW b,
         Accounts(w, grads, lost, seen), b \notin seen
  PROVE  Accounts(w, {}, lost \cup grads \cup {b}, seen \cup {b})
<1>1. \A i \in DOMAIN w : b \notin w[i]
  BY DEF Accounts, Range
<1>2. QED
  BY <1>1 DEF Accounts

OneWindow(group) == \A c, d \in group : Window(c) = Window(d)
NewWindow(group, w) == \A c \in group, d \in UNION Range(w) : Window(c) # Window(d)

\* A step of the optimizer on one whole window that no group has yet.
LEMMA AccountsStep ==
  ASSUME NEW w \in Seq(SUBSET Batches), NEW grads \in SUBSET Batches, NEW lost, NEW seen,
         NEW b \in Batches, Accounts(w, grads, lost, seen), b \notin seen,
         OneWindow(grads \cup {b}), NewWindow(grads \cup {b}, w)
  PROVE  Accounts(Append(w, grads \cup {b}), {}, lost, seen \cup {b})
<1> DEFINE group == grads \cup {b}
           v     == Append(w, group)
<1>1. /\ v \in Seq(SUBSET Batches) /\ Len(v) = Len(w) + 1 /\ v[Len(w) + 1] = group
      /\ \A i \in 1..Len(w) : v[i] = w[i]
      /\ UNION Range(v) = (UNION Range(w)) \cup group
  <2>1. group \in SUBSET Batches
    OBVIOUS
  <2> HIDE DEF group
  <2>2. QED
    BY <2>1, BatchAppend
<1>2. DOMAIN v = 1..(Len(w) + 1) /\ DOMAIN w = 1..Len(w) /\ Len(w) \in Nat
  BY <1>1, LenProperties
<1>3. \A i \in DOMAIN w : w[i] \subseteq UNION Range(w) /\ b \notin w[i]
  BY DEF Accounts, Range
<1> HIDE DEF v
<1>4. (UNION Range(v)) \cup {} \cup lost = seen \cup {b} /\ {} \cap lost = {}
  BY <1>1 DEF Accounts
<1>5. ASSUME NEW i \in DOMAIN v
      PROVE  /\ v[i] \cap ({} \cup lost) = {}
             /\ \A c, d \in v[i] : Window(c) = Window(d)
             /\ \A j \in 1..(i - 1), c \in v[i] : \A d \in v[j] : Window(c) # Window(d)
  <2>1. CASE i \in DOMAIN w
    <3>1. \A j \in 1..(i - 1) : v[j] = w[j]
      BY <2>1, <1>1, <1>2
    <3>2. v[i] = w[i]
      BY <2>1, <1>1, <1>2
    <3>3. QED
      BY <2>1, <3>1, <3>2 DEF Accounts
  <2>2. CASE i = Len(w) + 1
    <3>1. \A j \in 1..(i - 1) : v[j] = w[j] /\ w[j] \subseteq UNION Range(w)
      BY <2>2, <1>1, <1>2, <1>3
    <3>2. v[i] = group /\ b \notin lost
      BY <2>2, <1>1 DEF Accounts
    <3>3. group \cap ({} \cup lost) = {}
      BY <3>2 DEF Accounts
    <3>4. QED
      BY <3>1, <3>2, <3>3 DEF OneWindow, NewWindow
  <2>3. QED
    BY <2>1, <2>2, <1>2
<1>6. QED
  BY <1>4, <1>5 DEF Accounts, v
--------------------------------------------------------------------------------
(* Windows *)

\* The accumulation window of position n, and whether a window begins there.
Win(n)    == n \div args.grad_accum
Opens(n)  == n % args.grad_accum = 0

LEMMA WinMoves ==
  ASSUME args \in Settings, NEW n \in Nat
  PROVE  /\ Win(n) \in Nat /\ Win(n + 1) \in Nat /\ Win(n) <= Win(n + 1)
         /\ Opens(n + 1) => Win(n + 1) = Win(n) + 1
         /\ ~Opens(n + 1) => Win(n + 1) = Win(n)
<1>1. args.grad_accum \in Nat \ {0}
  BY ArgsTyped
<1> DEFINE g == args.grad_accum
<1> HIDE DEF g
<1>2. g \in Nat \ {0}
  BY <1>1 DEF g
<1>3. /\ n \div g \in Nat /\ (n + 1) \div g \in Nat
      /\ (n + 1) \div g = IF (n + 1) % g = 0 THEN n \div g + 1 ELSE n \div g
  BY <1>2, NextDiv
<1>4. QED
  BY <1>3 DEF Win, Opens, g

LEMMA WindowIs == \A b : Window(b) = <<b[1], Win(b[2])>>
BY DEF Window, Win

LEMMA GroupEndIs ==
  ASSUME args \in Settings, NEW n \in Nat, NEW len
  PROVE  /\ IsGroupEnd(n, len) => Opens(n + 1) \/ n + 1 = len
         /\ ~IsGroupEnd(n, len) => ~Opens(n + 1) /\ n + 1 # len
<1>1. args.grad_accum = 1 => (n + 1) % args.grad_accum = 0
  BY SMT
<1>2. args.grad_accum \in Nat \ {0}
  BY ArgsTyped
<1>3. QED
  BY <1>1, <1>2 DEF IsGroupEnd, Opens

\* Position n of epoch e lies between two gradient groups.
Boundary(e, n) == Opens(n) \/ n = Packs(e)

\* No group has batches of the window that position n of epoch e is in.
WindowOpen(weights, e, n) ==
  \A c \in UNION Range(weights) : c[1] = e => Win(c[2]) < Win(n) \/ n = Packs(e)

\* The gradients pending are of the window that position n of epoch e is in.
Pending(grads, e, n) == \A b \in grads : b[1] = e /\ b[2] < n /\ Win(b[2]) = Win(n)

LEMMA BatchTyped ==
  ASSUME args \in Settings, NEW b \in Batches
  PROVE  b[2] \in Nat /\ Win(b[2]) \in Nat
BY BatchForm, WinMoves

\* A new epoch has no group yet.
LEMMA WindowFirst ==
  ASSUME args \in Settings, NEW w, NEW lost, NEW e \in 0..args.epochs,
         Accounts(w, {}, lost, Before(e, 0))
  PROVE  WindowOpen(w, e, 0)
<1> SUFFICES ASSUME NEW c \in UNION Range(w), c[1] = e
             PROVE  FALSE
  BY DEF WindowOpen
<1>1. c \in Before(e, 0)
  BY DEF Accounts
<1>2. PICK f \in 0..(args.epochs - 1), m \in Nat : m < Packs(f) /\ c = <<f, m>>
  BY <1>1, BatchForm DEF Before
<1>3. f \in Nat /\ e \in Nat /\ ~(f < f) /\ ~(m < 0)
  BY <1>2, ArgsTyped
<1>4. QED
  BY <1>1, <1>2, <1>3 DEF Before

\* A position moves on and the window it was in stays open.
LEMMA WindowMoves ==
  ASSUME args \in Settings, NEW w \in Seq(SUBSET Batches), NEW e \in 0..(args.epochs - 1),
         NEW n \in 0..(Packs(e) - 1), WindowOpen(w, e, n)
  PROVE  WindowOpen(w, e, n + 1)
<1>1. n \in Nat /\ Packs(e) \in Nat /\ n # Packs(e)
  BY ArgsTyped
<1>2. Win(n) \in Nat /\ Win(n + 1) \in Nat /\ Win(n) <= Win(n + 1)
  BY <1>1, WinMoves
<1>3. ASSUME NEW c \in UNION Range(w), c[1] = e
      PROVE  Win(c[2]) < Win(n + 1)
  <2>1. Win(c[2]) < Win(n)
    BY <1>1, <1>3 DEF WindowOpen
  <2>2. c \in Batches
    BY <1>3, GroupBatches
  <2>3. QED
    BY <2>1, <2>2, <1>2, BatchTyped
<1>4. QED
  BY <1>3 DEF WindowOpen

\* The batch after one that is not the last of its group is in its window.
LEMMA PendingMoves ==
  ASSUME args \in Settings, NEW e \in 0..(args.epochs - 1), NEW n \in 0..(Packs(e) - 1),
         NEW grads \in SUBSET Batches, Pending(grads, e, n), ~IsGroupEnd(n, Packs(e))
  PROVE  Pending(grads \cup {<<e, n>>}, e, n + 1) /\ n + 1 # Packs(e)
<1>1. n \in Nat /\ \A b \in grads : b[2] \in Nat
  BY ArgsTyped, BatchTyped
<1>2. Win(n + 1) = Win(n) /\ n + 1 # Packs(e)
  BY <1>1, WinMoves, GroupEndIs
<1>3. QED
  BY <1>1, <1>2 DEF Pending

\* A step on the last batch of a group closes its window, and the group is one
\* window that no earlier group has.
LEMMA WindowCloses ==
  ASSUME args \in Settings, NEW w \in Seq(SUBSET Batches), NEW e \in 0..(args.epochs - 1),
         NEW n \in 0..(Packs(e) - 1), NEW grads \in SUBSET Batches,
         WindowOpen(w, e, n), Pending(grads, e, n), IsGroupEnd(n, Packs(e))
  PROVE  /\ Boundary(e, n + 1)
         /\ WindowOpen(Append(w, grads \cup {<<e, n>>}), e, n + 1)
         /\ OneWindow(grads \cup {<<e, n>>}) /\ NewWindow(grads \cup {<<e, n>>}, w)
<1> DEFINE group == grads \cup {<<e, n>>}
<1>0. n \in Nat /\ Packs(e) \in Nat /\ n # Packs(e)
  BY ArgsTyped
<1>1. n \in Nat /\ Packs(e) \in Nat /\ n # Packs(e) /\ Win(n) \in Nat
  BY <1>0, WinMoves
<1>2. \A c \in group : c[1] = e /\ Win(c[2]) = Win(n)
  BY DEF Pending
<1>3. Opens(n + 1) \/ n + 1 = Packs(e)
  BY <1>1, GroupEndIs
<1>4. WindowOpen(Append(w, group), e, n + 1)
  <2>1. group \in SUBSET Batches
    BY BeforeNext
  <2>2. UNION Range(Append(w, group)) = (UNION Range(w)) \cup group
    BY <2>1, GroupAppend
  <2>3. WindowOpen(w, e, n + 1)
    BY WindowMoves
  <2>4. Win(n) < Win(n + 1) \/ n + 1 = Packs(e)
    BY <1>1, <1>3, WinMoves
  <2>5. QED
    BY <1>2, <2>2, <2>3, <2>4 DEF WindowOpen
<1>5. ASSUME NEW c \in group, NEW d \in UNION Range(w)
      PROVE  Window(c) # Window(d)
  <2>1. d[1] = e => Win(d[2]) # Win(n)
    BY <1>1 DEF WindowOpen
  <2>2. QED
    BY <2>1, <1>2, WindowIs
<1>6. QED
  BY <1>2, <1>3, <1>4, <1>5, WindowIs DEF Boundary, OneWindow, NewWindow
--------------------------------------------------------------------------------
(* The invariant *)

Point == [epoch : Nat, offset : Nat, step : Nat, weights : Seq(SUBSET Batches),
          ema : Nat, lost : SUBSET Batches]

ContextRec == [start : 0..args.epochs, offset : Nat, from : Nat, step : Nat,
               epoch : 0..args.epochs, batch : Nat, dl_len : Nat, display : Int, last : BOOLEAN]
SamplerRec == [next : Nat, skip : {0}]
ModelRec   == [weights : Seq(SUBSET Batches), grads : SUBSET Batches, ema : Nat,
               lost : SUBSET Batches]
DiskRec    == [auto : Point \cup {None}, config : {args, NoConfig}, saved : SUBSET Point,
               final : BOOLEAN]
ToldRec    == [backup : BOOLEAN, paused : {"no", "backup", "nothing"}, finished : BOOLEAN]
BoundsRec  == [runs : 0..MaxRuns, nans : 0..MaxNaNs]

RunTypes ==
  /\ args \in Settings /\ pc \in Locations
  /\ ctx \in ContextRec /\ sampler \in SamplerRec /\ model \in ModelRec
  /\ disk \in DiskRec /\ told \in ToldRec /\ bounds \in BoundsRec

EmaOf(step) == Cardinality({k \in 1..step : k >= args.ema_start})

\* A position a process may start from.
StartPosition(e, n) ==
  /\ e \in 0..args.epochs
  /\ IF e = args.epochs THEN n = 0 ELSE n \in 0..Packs(e)
  /\ Boundary(e, n)

\* The weights of one who starts there.
Begun(weights, lost, e, n) ==
  /\ StartPosition(e, n)
  /\ WindowOpen(weights, e, n)
  /\ Accounts(weights, {}, lost, Before(e, n))

PointOK(p) ==
  Begun(p.weights, p.lost, p.epoch, p.offset) /\ p.step = Len(p.weights) /\ p.ema = EmaOf(p.step)

\* The locations of a process that saves on a step, and of one that has seen the
\* last batch of its epoch.
InStep    == {"write_step", "replace_step"}
AfterLast == {"write_epoch", "replace_epoch", "config", "write_auto", "replace_auto",
              "remember", "announce"}

\* Process p with context c, sampler s and model m, inside an epoch.
Within(p, c, s, m) ==
  p \in InEpoch =>
    /\ c.epoch < args.epochs /\ c.dl_len = Packs(c.epoch)
    /\ s.next <= c.dl_len
    /\ WindowOpen(m.weights, c.epoch, s.next)
    /\ Accounts(m.weights, m.grads, m.lost, Before(c.epoch, s.next))
    /\ Pending(m.grads, c.epoch, s.next)
    /\ s.next = c.dl_len \/ p # "batch" => m.grads = {}
    /\ p \in InStep => s.next = c.batch + 1 /\ Boundary(c.epoch, s.next)
    /\ p \notin InStep => s.next = c.batch
    /\ p = "epoch_end" => AtLimit(c.step)
    /\ p \in AfterLast => s.next = c.dl_len

\* Where the process starts the epoch it is about to begin.
FirstBatch(c) == IF c.epoch = c.start THEN c.offset ELSE 0

Between(p, c, m) == p = "epoch" => m.grads = {} /\ Begun(m.weights, m.lost, c.epoch, FirstBatch(c))

Counted(c, m) == c.start <= c.epoch /\ c.step = Len(m.weights) /\ m.ema = EmaOf(c.step)

PointsOf(d) == d.saved \cup ({d.auto} \ {None})

Books(p, c, s, m, d) ==
  /\ Counted(c, m)
  /\ \A point \in PointsOf(d) : PointOK(point)
  /\ Between(p, c, m)
  /\ Within(p, c, s, m)

WeightsInv == Books(pc, ctx, sampler, model, disk)

\* The backup on disk and the process.
Looping == {"epoch"} \cup InEpoch

Extends(s, t) == Len(s) <= Len(t) /\ \A i \in 1..Len(s) : t[i] = s[i]

BackupInv ==
  /\ disk.auto # None => disk.config = args
  /\ pc \in {"write_auto", "replace_auto"} => disk.config = args
  /\ pc \in {"remember", "announce"} => disk.auto # None /\ disk.auto.epoch = ctx.epoch + 1
  /\ pc \in Looping /\ disk.auto # None => Extends(disk.auto.weights, model.weights)
  /\ pc \in Looping \ {"remember", "announce"} /\ disk.auto # None => disk.auto.epoch <= ctx.epoch

PauseInv ==
  pc # "absent" =>
    /\ ctx.last => disk.auto # None /\ disk.auto.epoch >= ctx.epoch
    /\ ~ctx.last => ctx.epoch = ctx.start
    /\ ~ctx.last /\ disk.auto # None => pc \in {"remember", "pausing"} /\ disk.auto.epoch = ctx.epoch + 1
    /\ told.backup => ctx.last
    /\ pc = "announce" => ctx.last
    /\ \A b \in Trained : b[1] <= ctx.epoch

FinishInv ==
  /\ pc = "finalize" => AtLimit(ctx.step)
  /\ told.finished =>
       /\ pc \in {"closing", "pausing", "absent"}
       /\ AtLimit(ctx.step) \/ (UNION Range(model.weights)) \cup model.lost = Batches

\* What is said of the settings alone stays as it is while they do.
LEMMA Rigid ==
  ASSUME args' = args
  PROVE  /\ Batches' = Batches
         /\ WeightsInv' <=> Books(pc', ctx', sampler', model', disk')
<1>1. Batches' = Batches
  BY DEF Batches, Packs
<1>2. WeightsInv' <=> Books(pc', ctx', sampler', model', disk')
  BY <1>1 DEF WeightsInv, Books, Counted, PointsOf, PointOK, Between, Begun, FirstBatch, Within, Before, Packs,
     WindowOpen, Accounts, Window, Win, Opens, Pending, Boundary, StartPosition, EmaOf, AtLimit
<1>3. QED
  BY <1>1, <1>2

LEMMA EmaCounts ==
  ASSUME args \in Settings, NEW step \in Nat
  PROVE  /\ EmaOf(0) = 0 /\ EmaOf(step) \in Nat
         /\ EmaOf(step + 1) = EmaUpdate(EmaOf(step), step + 1)
<1> DEFINE K(n) == {k \in 1..n : k >= args.ema_start}
<1>1. args.ema_start \in Nat
  BY ArgsTyped
<1>2. K(0) = {}
  OBVIOUS
<1>3. IsFiniteSet(1..step)
  BY FS_Interval
<1>4. IsFiniteSet(K(step))
  BY <1>3, FS_Subset
<1>5. Cardinality(K(step)) \in Nat
  BY <1>4, FS_CardinalityType
<1>6. CASE step + 1 < args.ema_start
  <2>1. K(step + 1) = K(step)
    BY <1>1, <1>6
  <2>2. QED
    BY <2>1, <1>2, <1>5, <1>6, FS_EmptySet DEF EmaOf, EmaUpdate
<1>7. CASE ~(step + 1 < args.ema_start)
  <2>1. K(step + 1) = K(step) \cup {step + 1} /\ step + 1 \notin K(step)
    BY <1>1, <1>7
  <2>2. Cardinality(K(step + 1)) = Cardinality(K(step)) + 1
    BY <2>1, <1>4, FS_AddElement
  <2>3. QED
    BY <2>2, <1>2, <1>5, <1>7, FS_EmptySet DEF EmaOf, EmaUpdate
<1>8. QED
  BY <1>6, <1>7

--------------------------------------------------------------------------------
(* The settings stay, and the types *)

\* Whatever the user makes of the yaml, a process runs with the settings the task
\* has: those it was frozen under if it has a backup.
LEMMA ArgsKept == RunTypes /\ BackupInv /\ [Next]_vars => args' = args
<1> SUFFICES ASSUME RunTypes, BackupInv, [Next]_vars
             PROVE  args' = args
  OBVIOUS
<1>1. CASE Boot
  <2>1. PICK point \in ResumePoints, yaml \in Settings :
          /\ point = disk.auto \/ yaml = args
          /\ args' = IF point = None THEN args ELSE FrozenArgs(point, yaml)
    BY <1>1 DEF Boot
  <2>2. args # NoConfig
    BY ArgsTyped DEF RunTypes
  <2>3. QED
    BY <2>1, <2>2 DEF FrozenArgs, BackupInv
<1>2. CASE ~Boot
  BY <1>2 DEF Next, vars, EpochStart, SkipNaN, Backward, OptimizerStep, Consume, WriteTmp,
     ReplaceStepState, EpochEnd, ReplaceEpochState, WriteConfig, ReplaceAutoState, Remember, Announce,
     Finalize, Exit, Interrupt, EmitPauseState, Kill
<1>3. QED
  BY <1>1, <1>2

LEMMA TypesAfter ==
  ASSUME args' = args, Batches' = Batches
  PROVE  RunTypes' <=>
           /\ args \in Settings /\ pc' \in Locations
           /\ ctx' \in ContextRec /\ sampler' \in SamplerRec /\ model' \in ModelRec
           /\ disk' \in DiskRec /\ told' \in ToldRec /\ bounds' \in BoundsRec
<1>1. Point' = Point
  BY DEF Point
<1>2. ContextRec' = ContextRec /\ ModelRec' = ModelRec /\ DiskRec' = DiskRec
  BY <1>1 DEF ContextRec, ModelRec, DiskRec
<1>3. QED
  BY <1>2 DEF RunTypes, SamplerRec, ToldRec, BoundsRec

\* A minimum of two, and the estimate of the steps of a run.
LEMMA MinOfTwo ==
  ASSUME NEW a \in Int, NEW b \in Int
  PROVE  Min({a, b}) = IF a <= b THEN a ELSE b
<1> DEFINE m == IF a <= b THEN a ELSE b
<1>1. m \in {a, b} /\ \A y \in {a, b} : m <= y
  OBVIOUS
<1>2. \A x \in {a, b} : (\A y \in {a, b} : x <= y) => x = m
  OBVIOUS
<1>3. QED
  BY <1>1, <1>2 DEF Min

Clip(est) == IF args.max_steps > 0 THEN Min({est, args.max_steps}) ELSE est

LEMMA ClipIs ==
  ASSUME args \in Settings, NEW est \in Int
  PROVE  /\ Clip(est) \in Int
         /\ Clip(est) = IF args.max_steps > 0 /\ args.max_steps < est THEN args.max_steps ELSE est
BY ArgsTyped, MinOfTwo DEF Clip

\* The gradient groups of len batches.
LEMMA CeilTyped ==
  ASSUME args \in Settings, NEW n \in Nat
  PROVE  Ceil(n, args.grad_accum) \in Nat
<1> DEFINE g == args.grad_accum
<1>1. g \in Nat \ {0} /\ n + g - 1 \in Nat
  BY ArgsTyped
<1> HIDE DEF g
<1>2. \E q \in Nat, r \in 0..(g - 1) : n + g - 1 = g * q + r /\ (n + g - 1) \div g = q /\ (n + g - 1) % g = r
  BY <1>1, DivMod
<1>3. QED
  BY <1>2 DEF Ceil, g

LEMMA DisplayTyped ==
  ASSUME args \in Settings, NEW step \in Nat, NEW skipped \in Nat, NEW e \in 0..(args.epochs - 1)
  PROVE  /\ DisplayTotal(step, skipped, Packs(e), e) =
              Clip(step - Ceil(skipped, args.grad_accum)
                   + Ceil(Packs(e), args.grad_accum) * (args.epochs - e))
         /\ step - Ceil(skipped, args.grad_accum)
              + Ceil(Packs(e), args.grad_accum) * (args.epochs - e) \in Int
         /\ DisplayTotal(step, skipped, Packs(e), e) \in Int
         /\ TotalSteps \in Int
<1>1. Packs(e) \in Nat /\ Packs(0) \in Nat /\ args.epochs \in Nat
  BY ArgsTyped
<1>2. /\ Ceil(skipped, args.grad_accum) \in Nat /\ Ceil(Packs(e), args.grad_accum) \in Nat
      /\ Ceil(Packs(0), args.grad_accum) \in Nat
  BY <1>1, CeilTyped
<1>3. /\ step - Ceil(skipped, args.grad_accum)
           + Ceil(Packs(e), args.grad_accum) * (args.epochs - e) \in Int
      /\ Ceil(Packs(0), args.grad_accum) * args.epochs \in Int
  BY <1>1, <1>2
<1>4. TotalSteps = Clip(Ceil(Packs(0), args.grad_accum) * args.epochs)
  BY DEF TotalSteps, Clip
<1>5. QED
  BY <1>3, <1>4, ClipIs DEF DisplayTotal, Clip

\* A point to resume from is none, or one on disk.
LEMMA ResumePointOK ==
  ASSUME RunTypes, WeightsInv, NEW point \in ResumePoints, point # None
  PROVE  point \in Point /\ PointOK(point) /\ point.epoch \in 0..args.epochs
<1>1. point \in PointsOf(disk) /\ disk.auto \in Point \cup {None} /\ disk.saved \subseteq Point
  BY DEF ResumePoints, PointsOf, RunTypes, DiskRec
<1>2. PointOK(point) /\ point \in Point
  BY <1>1 DEF WeightsInv, Books, PointsOf
<1>3. QED
  BY <1>2 DEF PointOK, Begun, StartPosition

\* The batch a process is at is a batch of the data.
LEMMA CurrentOK ==
  ASSUME RunTypes, WeightsInv, pc = "batch", ~Drained
  PROVE  /\ ctx.epoch \in 0..(args.epochs - 1) /\ sampler.next \in 0..(Packs(ctx.epoch) - 1)
         /\ Current \in Batches /\ ctx.dl_len = Packs(ctx.epoch) /\ ctx.batch = sampler.next
<1>1. /\ ctx.epoch \in Nat /\ args \in Settings /\ sampler.next \in Nat /\ args.epochs \in Nat
      /\ ctx.epoch < args.epochs /\ ctx.dl_len = Packs(ctx.epoch) /\ sampler.next <= ctx.dl_len
      /\ sampler.next # Packs(ctx.epoch) /\ ctx.batch = sampler.next
  BY ArgsTyped DEF RunTypes, ContextRec, SamplerRec, WeightsInv, Books, Within, InEpoch, Drained, InStep
<1>2. ctx.epoch \in 0..(args.epochs - 1) /\ Packs(ctx.epoch) \in Nat
  BY <1>1, ArgsTyped
<1>3. sampler.next \in 0..(Packs(ctx.epoch) - 1)
  BY <1>1, <1>2
<1>4. Current \in Batches
  BY <1>1, <1>2, <1>3, BeforeNext DEF Current
<1>5. QED
  BY <1>1, <1>2, <1>3, <1>4

LEMMA ContextUpdates ==
  ASSUME NEW c \in ContextRec
  PROVE  /\ [c EXCEPT !.batch = @ + 1] \in ContextRec /\ [c EXCEPT !.last = TRUE] \in ContextRec
         /\ [c EXCEPT !.step = @ + 1] \in ContextRec
         /\ [c EXCEPT !.step = @ + 1, !.batch = @ + 1] \in ContextRec
<1>1. [c EXCEPT !.batch = @ + 1] \in ContextRec
  BY DEF ContextRec
<1>2. [c EXCEPT !.last = TRUE] \in ContextRec
  BY DEF ContextRec
<1>3. [c EXCEPT !.step = @ + 1] \in ContextRec
  BY DEF ContextRec
<1>4. [c EXCEPT !.step = @ + 1, !.batch = @ + 1] \in ContextRec
  <2>1. \A n, m \in Nat : [c EXCEPT !.step = n, !.batch = m] \in ContextRec
    BY DEF ContextRec
  <2>2. c.step + 1 \in Nat /\ c.batch + 1 \in Nat
    BY DEF ContextRec
  <2>3. QED
    BY <2>1, <2>2
<1>5. QED
  BY <1>1, <1>2, <1>3, <1>4

LEMMA TypesStep == RunTypes /\ WeightsInv /\ BackupInv /\ [Next]_vars => RunTypes'
<1> SUFFICES ASSUME RunTypes, WeightsInv, BackupInv, [Next]_vars
             PROVE  RunTypes'
  OBVIOUS
<1>1. args' = args /\ Batches' = Batches
  BY ArgsKept, Rigid
<1>2. /\ args \in Settings /\ pc \in Locations
      /\ ctx \in ContextRec /\ sampler \in SamplerRec /\ model \in ModelRec
      /\ disk \in DiskRec /\ told \in ToldRec /\ bounds \in BoundsRec
  BY DEF RunTypes
<1>3. args.epochs \in Nat \ {0} /\ MaxRuns \in Nat /\ MaxNaNs \in Nat
  BY <1>2, ArgsTyped, RunsAssumption
<1>4. pc' \in Locations
  <2>1. CASE SkipNaN \/ Backward \/ UNCHANGED vars
    BY <1>2, <2>1 DEF SkipNaN, Backward, vars
  <2>2. CASE Boot \/ EpochStart \/ ReplaceEpochState \/ WriteConfig \/ ReplaceAutoState \/ Remember
             \/ Announce \/ Finalize \/ Exit \/ Interrupt \/ EmitPauseState \/ Kill
    <3>1. pc' \in {"epoch", "batch", "config", "write_auto", "remember", "announce", "closing",
                   "absent", "pausing"}
      BY <2>2 DEF Boot, EpochStart, ReplaceEpochState, WriteConfig, ReplaceAutoState, Remember,
         Announce, Finalize, Exit, Interrupt, EmitPauseState, Kill
    <3>2. QED
      BY <3>1 DEF Locations, InEpoch
  <2>3. CASE OptimizerStep \/ ReplaceStepState \/ EpochEnd
    BY <2>3 DEF OptimizerStep, ReplaceStepState, AfterStep, EpochEnd, Locations, InEpoch
  <2>4. CASE WriteTmp("write_step", "replace_step") \/ WriteTmp("write_epoch", "replace_epoch")
             \/ WriteTmp("write_auto", "replace_auto")
    BY <2>4 DEF WriteTmp, Locations, InEpoch
  <2>5. QED
    BY <2>1, <2>2, <2>3, <2>4 DEF Next
<1>5. ctx' \in ContextRec /\ model' \in ModelRec
  <2>1. CASE Boot
    <3>1. PICK point \in ResumePoints :
            IF point = None
              THEN ctx' = [NoContext EXCEPT !.display = TotalSteps] /\ model' = NoModel
              ELSE LoadTrainingState(point)
      BY <2>1 DEF Boot
    <3>2. TotalSteps \in Int
      BY <1>2, <1>3, DisplayTyped
    <3>3. NoContext \in ContextRec /\ NoModel \in ModelRec
      BY <1>3 DEF NoContext, NoModel, ContextRec, ModelRec
    <3>4. CASE point = None
      <4>1. ctx' = [NoContext EXCEPT !.display = TotalSteps] /\ model' = NoModel
        BY <3>1, <3>4
      <4>2. ctx' \in ContextRec
        BY <4>1, <3>2, <3>3 DEF ContextRec
      <4>3. QED
        BY <4>1, <4>2, <3>3
    <3>5. CASE point # None
      <4>1. point \in Point /\ point.epoch \in 0..args.epochs
        BY <3>5, ResumePointOK
      <4>2. /\ point.offset \in Nat /\ point.step \in Nat /\ point.weights \in Seq(SUBSET Batches)
            /\ point.ema \in Nat /\ point.lost \in SUBSET Batches
        BY <4>1 DEF Point
      <4>3. PICK last \in BOOLEAN :
              ctx' = [NoContext EXCEPT !.start = point.epoch, !.epoch = point.epoch,
                        !.offset = point.offset, !.from = point.step, !.step = point.step,
                        !.display = TotalSteps, !.last = last]
        BY <3>1, <3>5 DEF LoadTrainingState
      <4>4. model' = [NoModel EXCEPT !.weights = point.weights, !.ema = point.ema,
                                     !.lost = point.lost]
        BY <3>1, <3>5 DEF LoadTrainingState
      <4>5. ctx' \in ContextRec
        BY <4>1, <4>2, <4>3, <3>2, <3>3 DEF ContextRec
      <4>6. model' \in ModelRec
        BY <4>2, <4>4, <3>3 DEF ModelRec
      <4>7. QED
        BY <4>5, <4>6
    <3>6. QED
      BY <3>4, <3>5
  <2>2. CASE EpochStart
    <3>1. ctx.epoch \in 0..(args.epochs - 1) /\ Packs(ctx.epoch) \in Nat /\ ctx.step \in Nat
      BY <2>2, <1>2, <1>3, ArgsTyped DEF EpochStart, ContextRec
    <3>2. PICK skip \in Nat :
            ctx' = [ctx EXCEPT !.dl_len = Packs(ctx.epoch), !.batch = skip,
                      !.display = DisplayTotal(ctx.step, skip, Packs(ctx.epoch), ctx.epoch)]
      BY <2>2, <1>2 DEF EpochStart, EpochLength, ContextRec
    <3>3. DisplayTotal(ctx.step, skip, Packs(ctx.epoch), ctx.epoch) \in Int
      BY <1>2, <3>1, DisplayTyped
    <3>4. ctx' \in ContextRec
      BY <1>2, <3>1, <3>2, <3>3 DEF ContextRec
    <3>5. QED
      BY <1>2, <2>2, <3>4 DEF EpochStart
  <2>3. CASE SkipNaN \/ Backward
    <3>1. Current \in Batches
      BY <2>3, CurrentOK DEF SkipNaN, Backward
    <3>2. ctx' = [ctx EXCEPT !.batch = @ + 1]
      BY <2>3 DEF SkipNaN, Backward
    <3>3. SkipNaN => model' \in ModelRec
      <4>1. SkipNaN => model' = [model EXCEPT !.grads = {}, !.lost = @ \cup model.grads \cup {Current}]
        BY DEF SkipNaN, ZeroGrad
      <4>2. QED
        BY <1>2, <3>1, <4>1 DEF ModelRec
    <3>4. Backward => model' \in ModelRec
      <4>1. Backward => model' = [model EXCEPT !.grads = @ \cup {Current}]
        BY DEF Backward
      <4>2. QED
        BY <1>2, <3>1, <4>1 DEF ModelRec
    <3>5. QED
      BY <1>2, <2>3, <3>2, <3>3, <3>4, ContextUpdates
  <2>4. CASE OptimizerStep
    <3>1. Current \in Batches
      BY <2>4, CurrentOK DEF OptimizerStep
    <3>2. Append(model.weights, model.grads \cup {Current}) \in Seq(SUBSET Batches)
      <4>1. model.grads \cup {Current} \in SUBSET Batches
        BY <1>2, <3>1 DEF ModelRec
      <4>2. QED
        BY <1>2, <4>1, BatchAppend DEF ModelRec
    <3>3. \/ ctx' = [ctx EXCEPT !.step = @ + 1]
          \/ ctx' = [ctx EXCEPT !.step = @ + 1, !.batch = @ + 1]
      BY <2>4 DEF OptimizerStep
    <3>4. PICK ema \in Nat :
            model' = [model EXCEPT !.weights = Append(@, model.grads \cup {Current}), !.grads = {},
                                   !.ema = ema]
      <4>1. model.ema \in Nat
        BY <1>2 DEF ModelRec
      <4>2. EmaUpdate(model.ema, ctx.step + 1) \in Nat
        BY <4>1 DEF EmaUpdate
      <4>3. QED
        BY <2>4, <4>2 DEF OptimizerStep
    <3>5. ctx' \in ContextRec
      BY <1>2, <3>3, ContextUpdates
    <3>6. model' \in ModelRec
      BY <1>2, <3>2, <3>4 DEF ModelRec
    <3>7. QED
      BY <3>5, <3>6
  <2>5. CASE ReplaceStepState \/ Remember
    <3>1. ctx' = [ctx EXCEPT !.batch = @ + 1] \/ ctx' = [ctx EXCEPT !.last = TRUE]
      BY <2>5 DEF ReplaceStepState, Remember
    <3>2. ctx' \in ContextRec
      BY <1>2, <3>1, ContextUpdates
    <3>3. model' = model
      BY <2>5 DEF ReplaceStepState, Remember
    <3>4. QED
      BY <1>2, <3>2, <3>3
  <2>6. CASE Announce
    <3>1. ctx.epoch < args.epochs /\ ctx.epoch \in 0..args.epochs
      BY <1>2, <2>6 DEF Announce, WeightsInv, Books, Within, InEpoch, ContextRec
    <3>2. ctx.epoch + 1 \in 0..args.epochs
      BY <1>3, <3>1
    <3>3. QED
      BY <1>2, <2>6, <3>2 DEF Announce, ContextRec
  <2>7. CASE UNCHANGED <<ctx, model>>
    BY <1>2, <2>7
  <2>8. QED
    BY <2>1, <2>2, <2>3, <2>4, <2>5, <2>6, <2>7 DEF Next, vars, WriteTmp, EpochEnd, ReplaceEpochState,
       WriteConfig, ReplaceAutoState, Finalize, Exit, Interrupt, EmitPauseState, Kill
<1>6. sampler' \in SamplerRec
  <2>1. CASE EpochStart
    <3>1. PICK skip \in Nat : sampler' = SamplerIter(IF skip > 0 THEN skip ELSE sampler.skip)
      BY <2>1, <1>2 DEF EpochStart, ContextRec
    <3>2. QED
      BY <3>1, <1>2 DEF SamplerIter, SamplerRec
  <2>2. CASE ~EpochStart
    BY <1>2, <2>2 DEF Next, vars, Boot, SkipNaN, Backward, OptimizerStep, Consume, WriteTmp,
       ReplaceStepState, EpochEnd, ReplaceEpochState, WriteConfig, ReplaceAutoState, Remember, Announce,
       Finalize, Exit, Interrupt, EmitPauseState, Kill, SamplerRec
  <2>3. QED
    BY <2>1, <2>2
<1>7. disk' \in DiskRec
  <2>1. StepPoint \in Point /\ EpochPoint \in Point
    BY <1>2 DEF StepPoint, EpochPoint, Snapshot, Point, ContextRec, ModelRec
  <2>2. CASE ReplaceStepState \/ ReplaceEpochState \/ ReplaceAutoState \/ WriteConfig \/ Finalize
    <3>1. \/ disk' = [disk EXCEPT !.saved = {p \in @ : p.step # ctx.step} \cup {StepPoint}]
          \/ disk' = [disk EXCEPT !.saved = {p \in @ : p.offset # 0 \/ p.epoch # ctx.epoch + 1}
                                            \cup {EpochPoint}]
          \/ disk' = [disk EXCEPT !.auto = EpochPoint]
          \/ disk' = [disk EXCEPT !.config = args]
          \/ disk' = [disk EXCEPT !.final = TRUE]
      BY <2>2 DEF ReplaceStepState, ReplaceEpochState, ReplaceAutoState, WriteConfig, Finalize
    <3>2. QED
      BY <1>2, <2>1, <3>1 DEF DiskRec
  <2>3. CASE disk' = disk
    BY <1>2, <2>3
  <2>4. QED
    BY <2>2, <2>3 DEF Next, vars, Boot, EpochStart, SkipNaN, Backward, OptimizerStep, Consume, WriteTmp,
       EpochEnd, Remember, Announce, Exit, Interrupt, EmitPauseState, Kill
<1>8. told' \in ToldRec /\ bounds' \in BoundsRec
  <2>1. CASE Boot
    <3>1. told' = [Untold EXCEPT !.backup = ctx'.last] /\ bounds' = [bounds EXCEPT !.runs = @ + 1]
          /\ bounds.runs < MaxRuns
      BY <2>1 DEF Boot
    <3>2. ctx'.last \in BOOLEAN
      BY <1>5 DEF ContextRec
    <3>3. told' \in ToldRec
      BY <3>1, <3>2 DEF Untold, ToldRec
    <3>4. bounds' \in BoundsRec
      BY <3>1, <1>2, <1>3 DEF BoundsRec
    <3>5. QED
      BY <3>3, <3>4
  <2>2. CASE SkipNaN
    BY <2>2, <1>2, <1>3 DEF SkipNaN, Consume, BoundsRec
  <2>3. CASE Announce \/ Finalize \/ EmitPauseState
    BY <2>3, <1>2 DEF Announce, Finalize, EmitPauseState, ToldRec
  <2>4. CASE UNCHANGED <<told, bounds>>
    BY <1>2, <2>4
  <2>5. QED
    BY <2>1, <2>2, <2>3, <2>4 DEF Next, vars, EpochStart, Backward, OptimizerStep, Consume, WriteTmp,
       ReplaceStepState, EpochEnd, ReplaceEpochState, WriteConfig, ReplaceAutoState, Remember, Exit,
       Interrupt, Kill
<1>9. QED
  BY <1>1, <1>2, <1>4, <1>5, <1>6, <1>7, <1>8, TypesAfter

--------------------------------------------------------------------------------
(* The weights, step by step *)

LEMMA BegunFirst ==
  ASSUME args \in Settings, NEW w, NEW lost, NEW e \in 0..args.epochs,
         Accounts(w, {}, lost, Before(e, 0))
  PROVE  Begun(w, lost, e, 0)
<1>1. WindowOpen(w, e, 0)
  BY WindowFirst
<1>2. Opens(0)
  <2>1. args.grad_accum \in Nat \ {0}
    BY ArgsTyped
  <2>2. QED
    BY <2>1 DEF Opens
<1>3. e # args.epochs => 0 \in 0..Packs(e)
  <2>1. e # args.epochs => e \in 0..(args.epochs - 1)
    BY ArgsTyped
  <2>2. QED
    BY <2>1, ArgsTyped
<1>4. QED
  BY <1>1, <1>2, <1>3 DEF Begun, StartPosition, Boundary

\* A process that has seen the last batch may start the next epoch.
LEMMA BegunNext ==
  ASSUME RunTypes, WeightsInv, pc \in AfterLast
  PROVE  /\ Begun(model.weights, model.lost, ctx.epoch + 1, 0)
         /\ ctx.epoch + 1 \in 0..args.epochs
<1>0. Within(pc, ctx, sampler, model) /\ args \in Settings /\ ctx \in ContextRec
  BY DEF RunTypes, WeightsInv, Books
<1>1. /\ args \in Settings /\ ctx.epoch \in Nat /\ ctx.epoch < args.epochs
      /\ sampler.next = Packs(ctx.epoch)
      /\ Accounts(model.weights, {}, model.lost, Before(ctx.epoch, Packs(ctx.epoch)))
  <2>1. pc \in InEpoch /\ pc # "batch"
    BY DEF AfterLast, InEpoch
  <2>2. ctx.epoch \in Nat
    BY <1>0 DEF ContextRec
  <2>3. QED
    BY <1>0, <2>1, <2>2 DEF Within
<1>2. ctx.epoch \in 0..(args.epochs - 1) /\ ctx.epoch + 1 \in 0..args.epochs
  BY <1>1, ArgsTyped
<1>3. QED
  BY <1>1, <1>2, BeforeTurn, BegunFirst

\* A resume, or a start.
LEMMA BootBooks ==
  ASSUME RunTypes, WeightsInv, Boot
  PROVE  Books(pc', ctx', sampler', model', disk')
<1>1. PICK point \in ResumePoints :
        IF point = None
          THEN ctx' = [NoContext EXCEPT !.display = TotalSteps] /\ model' = NoModel
          ELSE LoadTrainingState(point)
  BY DEF Boot
<1>2. args \in Settings /\ args.epochs \in Nat \ {0} /\ pc' = "epoch" /\ disk' = disk
  BY ArgsTyped DEF RunTypes, Boot
<1>3. CASE point = None
  <2>1. /\ ctx'.start = 0 /\ ctx'.epoch = 0 /\ ctx'.offset = 0 /\ ctx'.step = 0
        /\ model'.weights = <<>> /\ model'.grads = {} /\ model'.ema = 0 /\ model'.lost = {}
    BY <1>1, <1>3 DEF NoContext, NoModel
  <2>2. Begun(<<>>, {}, 0, 0)
    <3>1. Before(0, 0) = {} /\ 0 \in 0..args.epochs
      BY <1>2, BeforeEnds
    <3>2. Accounts(<<>>, {}, {}, Before(0, 0))
      BY <3>1, AccountsEmpty
    <3>3. QED
      BY <1>2, <3>1, <3>2, BegunFirst
  <2>3. Counted(ctx', model')
    BY <1>2, <2>1, EmaCounts DEF Counted
  <2>4. QED
    BY <1>2, <2>1, <2>2, <2>3 DEF Books, WeightsInv, Between, FirstBatch, Within, InEpoch
<1>4. CASE point # None
  <2>1. point \in Point /\ PointOK(point)
    BY <1>4, ResumePointOK
  <2>2. /\ ctx'.start = point.epoch /\ ctx'.epoch = point.epoch /\ ctx'.offset = point.offset
        /\ ctx'.step = point.step /\ model'.weights = point.weights /\ model'.grads = {}
        /\ model'.ema = point.ema /\ model'.lost = point.lost
    BY <1>1, <1>4 DEF LoadTrainingState, NoContext, NoModel
  <2>3. point.epoch \in Nat
    BY <2>1 DEF Point
  <2>4. QED
    BY <1>2, <2>1, <2>2, <2>3 DEF Books, WeightsInv, Counted, PointOK, Between, FirstBatch, Within, InEpoch
<1>5. QED
  BY <1>3, <1>4

\* The batches skipped are those the weights have seen.
LEMMA EpochStartBooks ==
  ASSUME RunTypes, WeightsInv, EpochStart
  PROVE  Books(pc', ctx', sampler', model', disk')
<1> DEFINE skip == FirstBatch(ctx)
<1>0. ctx \in ContextRec /\ sampler \in SamplerRec /\ args \in Settings
  BY DEF RunTypes
<1>1. /\ pc = "epoch" /\ ctx.epoch < args.epochs /\ pc' = "batch" /\ args \in Settings
      /\ sampler.skip = 0 /\ ctx.epoch \in Nat /\ ctx.offset \in Nat
      /\ UNCHANGED <<model, disk>>
  BY <1>0 DEF EpochStart, ContextRec, SamplerRec
<1>2. /\ model.grads = {} /\ StartPosition(ctx.epoch, skip)
      /\ WindowOpen(model.weights, ctx.epoch, skip)
      /\ Accounts(model.weights, {}, model.lost, Before(ctx.epoch, skip))
      /\ Counted(ctx, model) /\ \A point \in PointsOf(disk) : PointOK(point)
  BY <1>1 DEF WeightsInv, Books, Between, Begun
<1>3. skip \in Nat /\ skip <= Packs(ctx.epoch)
  BY <1>1, <1>2, ArgsTyped DEF StartPosition
<1>4. /\ sampler'.next = skip
      /\ ctx'.epoch = ctx.epoch /\ ctx'.dl_len = Packs(ctx.epoch) /\ ctx'.batch = skip
      /\ ctx'.step = ctx.step /\ ctx'.start = ctx.start
  <2>1. /\ sampler' = SamplerIter(IF skip > 0 THEN skip ELSE sampler.skip)
        /\ ctx' = [ctx EXCEPT !.dl_len = Packs(ctx.epoch), !.batch = skip,
                     !.display = DisplayTotal(ctx.step, skip, Packs(ctx.epoch), ctx.epoch)]
    BY Zenon DEF EpochStart, EpochLength, FirstBatch
  <2>2. sampler'.next = skip
    BY <2>1, <1>1, <1>3 DEF SamplerIter
  <2>3. ctx \in ContextRec
    BY DEF RunTypes
  <2> HIDE DEF skip
  <2>4. QED
    BY <2>1, <2>2, <2>3 DEF ContextRec
<1>5. Within(pc', ctx', sampler', model')
  BY <1>1, <1>2, <1>3, <1>4 DEF Within, Pending, InEpoch, InStep, AfterLast
<1>6. Counted(ctx', model')
  BY <1>1, <1>2, <1>4 DEF Counted
<1>7. QED
  BY <1>1, <1>2, <1>5, <1>6 DEF Books, Between

\* What is known of a process at a batch.
LEMMA AtBatch ==
  ASSUME RunTypes, WeightsInv, pc = "batch", ~Drained
  PROVE  /\ args \in Settings /\ model.weights \in Seq(SUBSET Batches)
         /\ model.grads \in SUBSET Batches /\ ctx.step \in Nat
         /\ ctx.epoch \in 0..(args.epochs - 1) /\ sampler.next \in 0..(Packs(ctx.epoch) - 1)
         /\ sampler.next \in Nat /\ sampler.next + 1 <= Packs(ctx.epoch)
         /\ ctx.dl_len = Packs(ctx.epoch) /\ ctx.batch = sampler.next
         /\ WindowOpen(model.weights, ctx.epoch, sampler.next)
         /\ Pending(model.grads, ctx.epoch, sampler.next)
         /\ Accounts(model.weights, model.grads, model.lost, Before(ctx.epoch, sampler.next))
         /\ Current \notin Before(ctx.epoch, sampler.next)
         /\ Before(ctx.epoch, sampler.next + 1) = Before(ctx.epoch, sampler.next) \cup {Current}
<1>1. args \in Settings /\ model \in ModelRec /\ ctx \in ContextRec /\ Within(pc, ctx, sampler, model)
  BY DEF RunTypes, WeightsInv, Books
<1>2. /\ ctx.epoch \in 0..(args.epochs - 1) /\ sampler.next \in 0..(Packs(ctx.epoch) - 1)
      /\ ctx.dl_len = Packs(ctx.epoch) /\ ctx.batch = sampler.next
  BY CurrentOK
<1>3. /\ WindowOpen(model.weights, ctx.epoch, sampler.next)
      /\ Pending(model.grads, ctx.epoch, sampler.next)
      /\ Accounts(model.weights, model.grads, model.lost, Before(ctx.epoch, sampler.next))
  BY <1>1 DEF Within, InEpoch
<1>4. /\ model.weights \in Seq(SUBSET Batches) /\ model.grads \in SUBSET Batches /\ ctx.step \in Nat
  BY <1>1 DEF ModelRec, ContextRec
<1>5. sampler.next \in Nat /\ sampler.next + 1 <= Packs(ctx.epoch)
  BY <1>1, <1>2, ArgsTyped
<1>6. /\ Current \notin Before(ctx.epoch, sampler.next)
      /\ Before(ctx.epoch, sampler.next + 1) = Before(ctx.epoch, sampler.next) \cup {Current}
  BY <1>1, <1>2, BeforeNext DEF Current
<1>7. QED
  BY <1>1, <1>2, <1>3, <1>4, <1>5, <1>6

\* A NaN drops the group so far with its batch.
LEMMA SkipNaNBooks ==
  ASSUME RunTypes, WeightsInv, SkipNaN
  PROVE  Books(pc', ctx', sampler', model', disk')
<1>1. pc = "batch" /\ ~Drained /\ pc' = "batch" /\ disk' = disk
  BY DEF SkipNaN, Consume
<1>2. /\ sampler'.next = sampler.next + 1
      /\ ctx'.batch = ctx.batch + 1 /\ ctx'.epoch = ctx.epoch /\ ctx'.dl_len = ctx.dl_len
      /\ ctx'.step = ctx.step /\ ctx'.start = ctx.start
      /\ model'.weights = model.weights /\ model'.grads = {} /\ model'.ema = model.ema
      /\ model'.lost = model.lost \cup model.grads \cup {Current}
  BY DEF SkipNaN, Consume, ZeroGrad, RunTypes, ContextRec, SamplerRec, ModelRec
<1> DEFINE e == ctx.epoch
           n == sampler.next
<1>3. Accounts(model'.weights, model'.grads, model'.lost, Before(ctx'.epoch, sampler'.next))
  <2>1. Accounts(model.weights, {}, model.lost \cup model.grads \cup {Current}, Before(e, n) \cup {Current})
    BY <1>1, AtBatch, AccountsLost
  <2>2. Before(e, n) \cup {Current} = Before(e, n + 1)
    BY <1>1, AtBatch
  <2>3. QED
    BY <1>2, <2>1, <2>2
<1>4. WindowOpen(model'.weights, ctx'.epoch, sampler'.next)
  <2>1. WindowOpen(model.weights, e, n + 1)
    BY <1>1, AtBatch, WindowMoves
  <2>2. QED
    BY <1>2, <2>1
<1>5. Within(pc', ctx', sampler', model')
  <2>1. /\ ctx'.epoch < args.epochs /\ ctx'.dl_len = Packs(ctx'.epoch)
        /\ sampler'.next <= ctx'.dl_len /\ sampler'.next = ctx'.batch
    BY <1>1, <1>2, AtBatch, ArgsTyped
  <2>2. Pending(model'.grads, ctx'.epoch, sampler'.next)
    BY <1>2 DEF Pending
  <2>3. QED
    BY <1>1, <1>2, <1>3, <1>4, <2>1, <2>2 DEF Within, InStep, AfterLast
<1>6. QED
  BY <1>1, <1>2, <1>5 DEF WeightsInv, Books, Counted, Between

\* A batch in the middle of its group.
LEMMA BackwardBooks ==
  ASSUME RunTypes, WeightsInv, Backward
  PROVE  Books(pc', ctx', sampler', model', disk')
<1>1. pc = "batch" /\ ~Drained /\ pc' = "batch" /\ disk' = disk /\ ~IsGroupEnd(ctx.batch, ctx.dl_len)
  BY DEF Backward, Consume
<1>2. /\ sampler'.next = sampler.next + 1
      /\ ctx'.batch = ctx.batch + 1 /\ ctx'.epoch = ctx.epoch /\ ctx'.dl_len = ctx.dl_len
      /\ ctx'.step = ctx.step /\ ctx'.start = ctx.start
      /\ model'.weights = model.weights /\ model'.grads = model.grads \cup {Current}
      /\ model'.ema = model.ema /\ model'.lost = model.lost
  BY DEF Backward, Consume, RunTypes, ContextRec, SamplerRec, ModelRec
<1> DEFINE e == ctx.epoch
           n == sampler.next
<1>3. Accounts(model'.weights, model'.grads, model'.lost, Before(ctx'.epoch, sampler'.next))
  <2>1. Accounts(model.weights, model.grads \cup {Current}, model.lost, Before(e, n) \cup {Current})
    BY <1>1, AtBatch, AccountsPending
  <2>2. Before(e, n) \cup {Current} = Before(e, n + 1)
    BY <1>1, AtBatch
  <2>3. QED
    BY <1>2, <2>1, <2>2
<1>4. WindowOpen(model'.weights, ctx'.epoch, sampler'.next)
  <2>1. WindowOpen(model.weights, e, n + 1)
    BY <1>1, AtBatch, WindowMoves
  <2>2. QED
    BY <1>2, <2>1
<1>5. Pending(model'.grads, ctx'.epoch, sampler'.next) /\ n + 1 # Packs(e)
  <2>1. Pending(model.grads \cup {Current}, e, n + 1) /\ n + 1 # Packs(e)
    BY <1>1, AtBatch, PendingMoves DEF Current
  <2>2. QED
    BY <1>2, <2>1
<1>6. Within(pc', ctx', sampler', model')
  <2>1. /\ ctx'.epoch < args.epochs /\ ctx'.dl_len = Packs(ctx'.epoch)
        /\ sampler'.next <= ctx'.dl_len /\ sampler'.next = ctx'.batch /\ sampler'.next # ctx'.dl_len
    BY <1>1, <1>2, <1>5, AtBatch, ArgsTyped
  <2>2. QED
    BY <1>1, <1>3, <1>4, <1>5, <2>1 DEF Within, InStep, AfterLast
<1>7. QED
  BY <1>1, <1>2, <1>6 DEF WeightsInv, Books, Counted, Between

\* A step of the optimizer takes one whole window.
LEMMA OptimizerStepBooks ==
  ASSUME RunTypes, WeightsInv, OptimizerStep
  PROVE  Books(pc', ctx', sampler', model', disk')
<1>1. /\ pc = "batch" /\ ~Drained /\ disk' = disk /\ IsGroupEnd(ctx.batch, ctx.dl_len)
      /\ pc' \in {"write_step", "epoch_end", "batch"}
  BY DEF OptimizerStep, Consume, AfterStep
<1> DEFINE e     == ctx.epoch
           n     == sampler.next
           group == model.grads \cup {Current}
<1>2. /\ sampler'.next = n + 1
      /\ ctx'.epoch = e /\ ctx'.dl_len = ctx.dl_len /\ ctx'.start = ctx.start
      /\ ctx'.step = ctx.step + 1
      /\ IF pc' = "write_step" THEN ctx'.batch = ctx.batch ELSE ctx'.batch = ctx.batch + 1
      /\ pc' = "epoch_end" => AtLimit(ctx.step + 1)
  <2>1. sampler \in SamplerRec /\ ctx \in ContextRec
    BY DEF RunTypes
  <2>2. sampler'.next = n + 1
    BY <2>1 DEF OptimizerStep, Consume, SamplerRec
  <2>3. CASE Due(ctx.step + 1, args.save_state_every_steps)
    <3>1. ctx' = [ctx EXCEPT !.step = ctx.step + 1] /\ pc' = "write_step"
      BY <2>3 DEF OptimizerStep
    <3>2. QED
      BY <2>1, <2>2, <3>1 DEF ContextRec
  <2>4. CASE ~Due(ctx.step + 1, args.save_state_every_steps)
    <3>1. /\ ctx' = [ctx EXCEPT !.step = ctx.step + 1, !.batch = @ + 1]
          /\ pc' = AfterStep(ctx.step + 1)
      BY <2>4 DEF OptimizerStep
    <3>2. pc' # "write_step" /\ (pc' = "epoch_end" => AtLimit(ctx.step + 1))
      BY <3>1 DEF AfterStep
    <3>3. QED
      BY <2>1, <2>2, <3>1, <3>2 DEF ContextRec
  <2>5. QED
    BY <2>3, <2>4
<1>3. /\ model'.weights = Append(model.weights, group) /\ model'.grads = {}
      /\ model'.ema = EmaUpdate(model.ema, ctx.step + 1) /\ model'.lost = model.lost
  <2>1. model \in ModelRec
    BY DEF RunTypes
  <2>2. model' = [model EXCEPT !.weights = Append(@, group), !.grads = {},
                                !.ema = EmaUpdate(@, ctx.step + 1)]
    BY DEF OptimizerStep
  <2> HIDE DEF group
  <2>3. QED
    BY <2>1, <2>2 DEF ModelRec
<1>4. /\ Boundary(e, n + 1) /\ WindowOpen(Append(model.weights, group), e, n + 1)
      /\ OneWindow(group) /\ NewWindow(group, model.weights)
  <2>1. group = model.grads \cup {<<e, n>>} /\ IsGroupEnd(n, Packs(e))
    BY <1>1, AtBatch DEF Current
  <2>2. /\ args \in Settings /\ model.weights \in Seq(SUBSET Batches) /\ e \in 0..(args.epochs - 1)
        /\ n \in 0..(Packs(e) - 1) /\ model.grads \in SUBSET Batches
        /\ WindowOpen(model.weights, e, n) /\ Pending(model.grads, e, n)
    BY <1>1, AtBatch
  <2> HIDE DEF e, n, group
  <2>3. QED
    BY <2>1, <2>2, WindowCloses
<1>5. Accounts(model'.weights, model'.grads, model'.lost, Before(ctx'.epoch, sampler'.next))
  <2>1. /\ model.weights \in Seq(SUBSET Batches) /\ model.grads \in SUBSET Batches
        /\ Current \in Batches /\ Current \notin Before(e, n)
        /\ Accounts(model.weights, model.grads, model.lost, Before(e, n))
        /\ Before(e, n) \cup {Current} = Before(e, n + 1)
    BY <1>1, AtBatch, CurrentOK
  <2> HIDE DEF e, n
  <2>2. Accounts(Append(model.weights, group), {}, model.lost, Before(e, n) \cup {Current})
    BY <2>1, <1>4, AccountsStep
  <2>3. QED
    BY <1>2, <1>3, <2>1, <2>2
<1>6. Len(Append(model.weights, group)) = Len(model.weights) + 1
  BY <1>1, AtBatch, CurrentOK, BatchAppend
<1>7. Within(pc', ctx', sampler', model')
  <2>1. /\ ctx'.epoch < args.epochs /\ ctx'.dl_len = Packs(ctx'.epoch)
        /\ sampler'.next <= ctx'.dl_len
        /\ IF pc' = "write_step" THEN sampler'.next = ctx'.batch + 1 ELSE sampler'.next = ctx'.batch
    BY <1>1, <1>2, AtBatch, ArgsTyped
  <2>2. Boundary(ctx'.epoch, sampler'.next) /\ WindowOpen(model'.weights, ctx'.epoch, sampler'.next)
    BY <1>2, <1>3, <1>4
  <2>3. model'.grads = {} /\ Pending(model'.grads, ctx'.epoch, sampler'.next)
    BY <1>3 DEF Pending
  <2>4. pc' = "epoch_end" => AtLimit(ctx'.step)
    BY <1>2
  <2>5. QED
    BY <1>1, <1>5, <2>1, <2>2, <2>3, <2>4 DEF Within, InStep, AfterLast
<1>8. Counted(ctx', model')
  <2>1. Counted(ctx, model)
    BY DEF WeightsInv, Books
  <2> HIDE DEF group
  <2>2. QED
    BY <1>1, <1>2, <1>3, <1>6, <2>1, AtBatch, EmaCounts DEF Counted
<1>9. QED
  BY <1>1, <1>7, <1>8 DEF WeightsInv, Books, Between

\* A state saved on a step lies behind the batch of the step.
LEMMA ReplaceStepBooks ==
  ASSUME RunTypes, WeightsInv, ReplaceStepState
  PROVE  Books(pc', ctx', sampler', model', disk')
<1>1. /\ pc = "replace_step" /\ pc' \in {"batch", "epoch_end"}
      /\ pc' = "epoch_end" => AtLimit(ctx.step)
      /\ UNCHANGED <<sampler, model>>
  BY DEF ReplaceStepState, AfterStep
<1>2. /\ ctx'.batch = ctx.batch + 1 /\ ctx'.epoch = ctx.epoch /\ ctx'.dl_len = ctx.dl_len
      /\ ctx'.step = ctx.step /\ ctx'.start = ctx.start
  <2>1. ctx \in ContextRec /\ ctx' = [ctx EXCEPT !.batch = @ + 1]
    BY DEF RunTypes, ReplaceStepState
  <2>2. QED
    BY <2>1 DEF ContextRec
<1>3. /\ Counted(ctx, model) /\ Within(pc, ctx, sampler, model)
      /\ \A point \in PointsOf(disk) : PointOK(point)
  BY DEF WeightsInv, Books
<1>4. /\ ctx.epoch < args.epochs /\ ctx.dl_len = Packs(ctx.epoch) /\ sampler.next <= ctx.dl_len
      /\ WindowOpen(model.weights, ctx.epoch, sampler.next) /\ model.grads = {}
      /\ Accounts(model.weights, {}, model.lost, Before(ctx.epoch, sampler.next))
      /\ sampler.next = ctx.batch + 1 /\ Boundary(ctx.epoch, sampler.next)
  BY <1>1, <1>3 DEF Within, InEpoch, InStep
<1>5. /\ ctx.epoch \in Nat /\ sampler.next \in Nat /\ args.epochs \in Nat
      /\ ctx.epoch \in 0..(args.epochs - 1) /\ Packs(ctx.epoch) \in Nat
  <2>1. ctx \in ContextRec /\ sampler \in SamplerRec /\ args \in Settings
    BY DEF RunTypes
  <2>2. ctx.epoch \in Nat /\ sampler.next \in Nat /\ args.epochs \in Nat
    BY <2>1, ArgsTyped DEF ContextRec, SamplerRec
  <2>3. QED
    BY <2>1, <2>2, <1>4, ArgsTyped
<1>6. PointOK(StepPoint)
  <2>1. StartPosition(ctx.epoch, sampler.next)
    BY <1>4, <1>5 DEF StartPosition
  <2>2. QED
    BY <1>3, <1>4, <2>1 DEF PointOK, Begun, StepPoint, Snapshot, Counted
<1>7. \A point \in PointsOf(disk') : PointOK(point)
  <2>1. disk' = [disk EXCEPT !.saved = {p \in @ : p.step # ctx.step} \cup {StepPoint}] /\ disk \in DiskRec
    BY DEF ReplaceStepState, RunTypes
  <2>2. disk'.auto = disk.auto /\ disk'.saved \subseteq disk.saved \cup {StepPoint}
    BY <2>1 DEF DiskRec
  <2>3. QED
    BY <1>3, <1>6, <2>2 DEF PointsOf
<1>8. Within(pc', ctx', sampler', model')
  BY <1>1, <1>2, <1>4 DEF Within, InStep, AfterLast, Pending
<1>9. QED
  BY <1>1, <1>2, <1>3, <1>7, <1>8 DEF Books, Counted, Between

\* So does a state saved at the end of an epoch: it names the next.
LEMMA EpochPointOK ==
  ASSUME RunTypes, WeightsInv, pc \in AfterLast
  PROVE  PointOK(EpochPoint)
<1>1. Counted(ctx, model)
  BY DEF WeightsInv, Books
<1>2. Begun(model.weights, model.lost, ctx.epoch + 1, 0)
  BY BegunNext
<1>3. QED
  BY <1>1, <1>2 DEF PointOK, EpochPoint, Snapshot, Counted

LEMMA ReplaceEpochBooks ==
  ASSUME RunTypes, WeightsInv, ReplaceEpochState \/ ReplaceAutoState
  PROVE  Books(pc', ctx', sampler', model', disk')
<1>1. /\ pc \in {"replace_epoch", "replace_auto"} /\ pc' \in {"config", "remember"}
      /\ UNCHANGED <<ctx, sampler, model>>
  BY DEF ReplaceEpochState, ReplaceAutoState
<1>2. /\ Counted(ctx, model) /\ Within(pc, ctx, sampler, model)
      /\ \A point \in PointsOf(disk) : PointOK(point)
  BY DEF WeightsInv, Books
<1>3. PointOK(EpochPoint)
  BY <1>1, EpochPointOK DEF AfterLast
<1>4. \A point \in PointsOf(disk') : PointOK(point)
  <2>1. disk \in DiskRec
    BY DEF RunTypes
  <2>2. CASE ReplaceEpochState
    <3>1. disk' = [disk EXCEPT !.saved = {p \in @ : p.offset # 0 \/ p.epoch # ctx.epoch + 1} \cup {EpochPoint}]
      BY <2>2 DEF ReplaceEpochState
    <3>2. disk'.auto = disk.auto /\ disk'.saved \subseteq disk.saved \cup {EpochPoint}
      BY <2>1, <3>1 DEF DiskRec
    <3>3. QED
      BY <1>2, <1>3, <3>2 DEF PointsOf
  <2>3. CASE ReplaceAutoState
    <3>1. disk' = [disk EXCEPT !.auto = EpochPoint]
      BY <2>3 DEF ReplaceAutoState
    <3>2. disk'.auto = EpochPoint /\ disk'.saved = disk.saved
      BY <2>1, <3>1 DEF DiskRec
    <3>3. QED
      BY <1>2, <1>3, <3>2 DEF PointsOf
  <2>4. QED
    BY <2>2, <2>3
<1>5. Within(pc', ctx', sampler', model')
  BY <1>1, <1>2 DEF Within, InEpoch, InStep, AfterLast
<1>6. QED
  BY <1>1, <1>2, <1>4, <1>5 DEF Books, Between

\* The next epoch begins at its first batch.
LEMMA AnnounceBooks ==
  ASSUME RunTypes, WeightsInv, Announce
  PROVE  Books(pc', ctx', sampler', model', disk')
<1>1. pc = "announce" /\ pc' = "epoch" /\ UNCHANGED <<sampler, model, disk>>
  BY DEF Announce
<1>2. ctx'.epoch = ctx.epoch + 1 /\ ctx'.step = ctx.step /\ ctx'.start = ctx.start
  <2>1. ctx \in ContextRec /\ ctx' = [ctx EXCEPT !.epoch = @ + 1]
    BY DEF RunTypes, Announce
  <2>2. QED
    BY <2>1 DEF ContextRec
<1>3. /\ Counted(ctx, model) /\ Within(pc, ctx, sampler, model)
      /\ \A point \in PointsOf(disk) : PointOK(point)
  BY DEF WeightsInv, Books
<1>4. Begun(model.weights, model.lost, ctx.epoch + 1, 0)
  BY <1>1, BegunNext DEF AfterLast
<1>5. ctx.start <= ctx.epoch /\ ctx.start \in Nat /\ ctx.epoch \in Nat
  <2>1. ctx \in ContextRec
    BY DEF RunTypes
  <2>2. QED
    BY <2>1, <1>3 DEF Counted, ContextRec
<1>6. FirstBatch(ctx') = 0
  BY <1>2, <1>5 DEF FirstBatch
<1>7. model.grads = {}
  BY <1>1, <1>3 DEF Within, InEpoch
<1>8. Between(pc', ctx', model')
  BY <1>1, <1>2, <1>4, <1>6, <1>7 DEF Between
<1>9. Counted(ctx', model')
  BY <1>1, <1>2, <1>3, <1>5 DEF Counted
<1>10. QED
  BY <1>1, <1>3, <1>8, <1>9 DEF Books, Within, InEpoch

\* The steps that leave weights, position and recovery points alone.
LEMMA OtherBooks ==
  ASSUME RunTypes, WeightsInv,
         \/ WriteTmp("write_step", "replace_step") \/ WriteTmp("write_epoch", "replace_epoch")
         \/ WriteTmp("write_auto", "replace_auto") \/ EpochEnd \/ WriteConfig \/ Remember
         \/ Finalize \/ Exit \/ Interrupt \/ EmitPauseState \/ Kill \/ UNCHANGED vars
  PROVE  Books(pc', ctx', sampler', model', disk')
<1>1. /\ Counted(ctx, model) /\ Within(pc, ctx, sampler, model) /\ Between(pc, ctx, model)
      /\ \A point \in PointsOf(disk) : PointOK(point)
  BY DEF WeightsInv, Books
<1>2. ctx \in ContextRec /\ disk \in DiskRec
  BY DEF RunTypes
<1>3. /\ UNCHANGED <<sampler, model>>
      /\ ctx' = ctx \/ ctx' = [ctx EXCEPT !.last = TRUE]
      /\ \/ disk' = disk \/ disk' = [disk EXCEPT !.config = args] \/ disk' = [disk EXCEPT !.final = TRUE]
  BY DEF WriteTmp, EpochEnd, WriteConfig, Remember, Finalize, Exit, Interrupt, EmitPauseState, Kill, vars
<1>4. disk'.auto = disk.auto /\ disk'.saved = disk.saved
  BY <1>2, <1>3 DEF DiskRec
<1>5. /\ ctx'.epoch = ctx.epoch /\ ctx'.dl_len = ctx.dl_len /\ ctx'.batch = ctx.batch
      /\ ctx'.step = ctx.step /\ ctx'.start = ctx.start /\ ctx'.offset = ctx.offset
  BY <1>2, <1>3 DEF ContextRec
<1>6. Counted(ctx', model') /\ \A point \in PointsOf(disk') : PointOK(point)
  BY <1>1, <1>3, <1>4, <1>5 DEF Counted, PointsOf
<1>7. Between(pc', ctx', model')
  <2>1. pc' = "epoch" => pc = "epoch"
    BY DEF WriteTmp, EpochEnd, WriteConfig, Remember, Finalize, Exit, Interrupt, EmitPauseState, Kill, vars
  <2>2. QED
    BY <1>1, <1>3, <1>5, <2>1 DEF Between, FirstBatch
<1>8. Within(pc', ctx', sampler', model')
  <2>1. CASE EpochEnd
    <3>1. /\ pc = "epoch_end" \/ (pc = "batch" /\ Drained)
          /\ pc' = IF AtLimit(ctx.step) THEN "finalize"
                   ELSE IF Due(ctx.epoch + 1, args.save_state_every_epochs) THEN "write_epoch"
                   ELSE "config"
      BY <2>1 DEF EpochEnd
    <3>2. pc' = "finalize" \/ (pc = "batch" /\ Drained /\ pc' \in {"write_epoch", "config"})
      BY <3>1, <1>1 DEF Within, InEpoch
    <3>3. QED
      BY <3>2, <1>1, <1>3, <1>5 DEF Within, InEpoch, InStep, AfterLast, Drained
  <2>2. CASE WriteTmp("write_step", "replace_step") \/ UNCHANGED vars
    <3>1. pc' = pc \/ (pc = "write_step" /\ pc' = "replace_step")
      BY <2>2 DEF WriteTmp, vars
    <3>2. QED
      BY <3>1, <1>1, <1>3, <1>5 DEF Within, InEpoch, InStep, AfterLast
  <2>3. CASE WriteTmp("write_epoch", "replace_epoch") \/ WriteTmp("write_auto", "replace_auto")
             \/ WriteConfig \/ Remember
    <3>1. pc \in AfterLast /\ pc' \in AfterLast
      BY <2>3 DEF WriteTmp, WriteConfig, Remember, AfterLast
    <3>2. QED
      BY <3>1, <1>1, <1>3, <1>5 DEF Within, InEpoch, InStep, AfterLast
  <2>4. CASE Finalize \/ Exit \/ Interrupt \/ EmitPauseState \/ Kill
    <3>1. pc' \notin InEpoch
      BY <2>4 DEF Finalize, Exit, Interrupt, EmitPauseState, Kill, InEpoch
    <3>2. QED
      BY <3>1 DEF Within
  <2>5. QED
    BY <2>1, <2>2, <2>3, <2>4
<1>9. QED
  BY <1>6, <1>7, <1>8 DEF Books

LEMMA WeightsStep == RunTypes /\ WeightsInv /\ BackupInv /\ [Next]_vars => WeightsInv'
<1> SUFFICES ASSUME RunTypes, WeightsInv, BackupInv, [Next]_vars
             PROVE  WeightsInv'
  OBVIOUS
<1>1. WeightsInv' <=> Books(pc', ctx', sampler', model', disk')
  BY ArgsKept, Rigid
<1>2. QED
  BY <1>1, BootBooks, EpochStartBooks, SkipNaNBooks, BackwardBooks, OptimizerStepBooks, ReplaceStepBooks,
     ReplaceEpochBooks, AnnounceBooks, OtherBooks DEF Next

--------------------------------------------------------------------------------
(* The backup *)

\* How a resume finds the backup: it is the only point, and the process is at it.
LEMMA BootBackup ==
  ASSUME RunTypes, WeightsInv, BackupInv, Boot
  PROVE  /\ pc' = "epoch" /\ disk' = disk /\ told'.backup = ctx'.last /\ ~told'.finished
         /\ ctx'.epoch = ctx'.start
         /\ IF disk.auto # None
              THEN /\ model'.weights = disk.auto.weights /\ ctx'.epoch = disk.auto.epoch
                   /\ disk.auto \in Point /\ ctx'.last
              ELSE ~ctx'.last
<1>1. PICK point \in ResumePoints :
        /\ IF point = None
             THEN ctx' = [NoContext EXCEPT !.display = TotalSteps] /\ model' = NoModel
             ELSE LoadTrainingState(point)
        /\ told' = [Untold EXCEPT !.backup = ctx'.last]
  BY DEF Boot
<1>2. pc' = "epoch" /\ disk' = disk /\ told'.backup = ctx'.last /\ ~told'.finished
  BY <1>1 DEF Boot, Untold
<1>3. disk.auto # None => point = disk.auto
  BY DEF ResumePoints
<1>4. CASE point = None
  BY <1>1, <1>2, <1>3, <1>4 DEF NoContext
<1>5. CASE point # None
  <2>1. point \in Point
    BY <1>5, ResumePointOK
  <2>2. /\ ctx'.start = point.epoch /\ ctx'.epoch = point.epoch /\ model'.weights = point.weights
        /\ ctx'.last = (point = disk.auto /\ disk.config # NoConfig)
    BY <1>1, <1>5 DEF LoadTrainingState, NoContext, NoModel
  <2>3. disk.auto # None => disk.config # NoConfig
    BY ArgsTyped DEF RunTypes, BackupInv, NoConfig
  <2>4. QED
    BY <1>2, <1>3, <1>5, <2>1, <2>2, <2>3
<1>6. QED
  BY <1>4, <1>5

LEMMA ExtendsLemma ==
  ASSUME NEW S, NEW s \in Seq(S), NEW t \in Seq(S), NEW x \in S
  PROVE  Extends(s, s) /\ (Extends(s, t) => Extends(s, Append(t, x)))
<1>1. Len(s) \in Nat /\ Len(t) \in Nat
  BY LenProperties
<1>2. Len(Append(t, x)) = Len(t) + 1 /\ \A i \in 1..Len(t) : Append(t, x)[i] = t[i]
  BY GroupAppend
<1>3. QED
  BY <1>1, <1>2 DEF Extends

LEMMA BatchExtends ==
  ASSUME NEW s \in Seq(SUBSET Batches), NEW t \in Seq(SUBSET Batches), NEW x \in SUBSET Batches
  PROVE  Extends(s, s) /\ (Extends(s, t) => Extends(s, Append(t, x)))
BY ExtendsLemma

LEMMA BackupStep == RunTypes /\ WeightsInv /\ BackupInv /\ [Next]_vars => BackupInv'
<1> SUFFICES ASSUME RunTypes, WeightsInv, BackupInv, [Next]_vars
             PROVE  BackupInv'
  OBVIOUS
<1>1. /\ args' = args /\ args \in Settings /\ ctx \in ContextRec /\ model \in ModelRec /\ disk \in DiskRec
      /\ disk.auto # None => disk.auto \in Point
  BY ArgsKept DEF RunTypes, DiskRec
<1>2. /\ ctx.epoch \in Nat /\ model.weights \in Seq(SUBSET Batches) /\ model.grads \in SUBSET Batches
      /\ disk.auto # None => disk.auto.weights \in Seq(SUBSET Batches) /\ disk.auto.epoch \in Nat
  <2>1. ctx.epoch \in Nat
    BY <1>1 DEF ContextRec
  <2>2. model.weights \in Seq(SUBSET Batches) /\ model.grads \in SUBSET Batches
    BY <1>1 DEF ModelRec
  <2>3. disk.auto # None => disk.auto.weights \in Seq(SUBSET Batches) /\ disk.auto.epoch \in Nat
    BY <1>1 DEF Point
  <2>4. QED
    BY <2>1, <2>2, <2>3
<1>3. CASE Boot
  <2>1. /\ pc' = "epoch" /\ disk' = disk
        /\ disk.auto # None => model'.weights = disk.auto.weights /\ ctx'.epoch = disk.auto.epoch
    BY <1>3, BootBackup
  <2>2. disk.auto # None => Extends(disk.auto.weights, disk.auto.weights)
    BY <1>2, BatchExtends
  <2>3. QED
    BY <1>1, <1>2, <2>1, <2>2 DEF BackupInv
<1>4. CASE OptimizerStep
  <2>1. Current \in Batches
    BY <1>4, CurrentOK DEF OptimizerStep
  <2>2. model'.weights = Append(model.weights, model.grads \cup {Current})
    BY <1>1, <1>4 DEF OptimizerStep, ModelRec
  <2>3. model.grads \cup {Current} \in SUBSET Batches
    BY <1>2, <2>1
  <2>4. disk.auto # None /\ Extends(disk.auto.weights, model.weights)
          => Extends(disk.auto.weights, model'.weights)
    BY <1>2, <2>2, <2>3, BatchExtends
  <2>5. /\ pc = "batch" /\ pc' \in {"write_step", "epoch_end", "batch"} /\ disk' = disk
        /\ ctx'.epoch = ctx.epoch
    BY <1>1, <1>4 DEF OptimizerStep, AfterStep, Consume, ContextRec
  <2>6. QED
    BY <1>1, <2>4, <2>5 DEF BackupInv, Looping, InEpoch
<1>5. CASE ReplaceAutoState
  <2>1. /\ pc = "replace_auto" /\ pc' = "remember" /\ UNCHANGED <<ctx, model>>
        /\ disk' = [disk EXCEPT !.auto = EpochPoint]
    BY <1>5 DEF ReplaceAutoState
  <2>2. disk'.auto = EpochPoint /\ disk'.config = disk.config
    BY <1>1, <2>1 DEF DiskRec
  <2>3. EpochPoint.epoch = ctx.epoch + 1 /\ EpochPoint.weights = model.weights
    BY DEF EpochPoint, Snapshot
  <2>4. EpochPoint # None
    BY <1>2, <2>3 DEF None
  <2>5. Extends(model.weights, model.weights)
    BY <1>2, BatchExtends
  <2>6. QED
    BY <1>1, <2>1, <2>2, <2>3, <2>4, <2>5 DEF BackupInv
<1>6. CASE Announce
  <2>1. /\ pc = "announce" /\ pc' = "epoch" /\ UNCHANGED <<model, disk>>
        /\ ctx' = [ctx EXCEPT !.epoch = @ + 1]
    BY <1>6 DEF Announce
  <2>2. ctx'.epoch = ctx.epoch + 1
    BY <1>1, <2>1 DEF ContextRec
  <2>3. QED
    BY <1>1, <1>2, <2>1, <2>2 DEF BackupInv, Looping, InEpoch
<1>7. CASE WriteConfig
  <2>1. /\ pc = "config" /\ pc' = "write_auto" /\ UNCHANGED <<ctx, model>>
        /\ disk' = [disk EXCEPT !.config = args]
    BY <1>7 DEF WriteConfig
  <2>2. disk'.auto = disk.auto /\ disk'.config = args
    BY <1>1, <2>1 DEF DiskRec
  <2>3. QED
    BY <1>1, <2>1, <2>2 DEF BackupInv, Looping, InEpoch
<1>8. CASE EpochStart \/ SkipNaN \/ Backward \/ ReplaceStepState \/ ReplaceEpochState \/ Remember
           \/ WriteTmp("write_step", "replace_step") \/ WriteTmp("write_epoch", "replace_epoch")
           \/ EpochEnd \/ UNCHANGED vars
  <2>1. /\ disk'.auto = disk.auto /\ disk'.config = disk.config
        /\ ctx'.epoch = ctx.epoch /\ model'.weights = model.weights
    <3>1. CASE EpochStart
      <4>1. ctx'.epoch = ctx.epoch
        BY <1>1, <3>1 DEF EpochStart, ContextRec
      <4>2. QED
        BY <4>1, <3>1 DEF EpochStart
    <3>2. CASE SkipNaN \/ Backward
      BY <1>1, <3>2 DEF SkipNaN, Backward, ZeroGrad, Consume, ContextRec, ModelRec
    <3>3. CASE ReplaceStepState
      BY <1>1, <3>3 DEF ReplaceStepState, ContextRec, DiskRec
    <3>4. CASE ReplaceEpochState
      BY <1>1, <3>4 DEF ReplaceEpochState, DiskRec
    <3>5. CASE Remember
      BY <1>1, <3>5 DEF Remember, ContextRec
    <3>6. CASE WriteTmp("write_step", "replace_step") \/ WriteTmp("write_epoch", "replace_epoch")
               \/ EpochEnd \/ UNCHANGED vars
      BY <3>6 DEF WriteTmp, EpochEnd, vars
    <3>7. QED
      BY <1>8, <3>1, <3>2, <3>3, <3>4, <3>5, <3>6
  <2>2. \/ pc' = pc
        \/ /\ pc \in Looping \ {"remember", "announce", "write_auto", "replace_auto"}
           /\ pc' \notin {"remember", "announce", "write_auto", "replace_auto"}
        \/ pc = "remember" /\ pc' = "announce"
    BY <1>8 DEF EpochStart, SkipNaN, Backward, ReplaceStepState, AfterStep, ReplaceEpochState, Remember,
       WriteTmp, EpochEnd, vars, Looping, InEpoch
  <2>3. CASE pc = "remember" /\ pc' = "announce"
    BY <1>1, <2>1, <2>3 DEF BackupInv, Looping, InEpoch
  <2>4. QED
    BY <1>1, <2>1, <2>2, <2>3 DEF BackupInv
<1>9. CASE WriteTmp("write_auto", "replace_auto")
  BY <1>1, <1>9 DEF WriteTmp, BackupInv, Looping, InEpoch
<1>10. CASE Finalize \/ Exit \/ Interrupt \/ EmitPauseState \/ Kill
  <2>1. pc' \notin Looping /\ disk'.auto = disk.auto /\ disk'.config = disk.config
    BY <1>1, <1>10 DEF Finalize, Exit, Interrupt, EmitPauseState, Kill, DiskRec, Looping, InEpoch
  <2>2. QED
    BY <1>1, <2>1 DEF BackupInv, Looping, InEpoch
<1>11. QED
  BY <1>3, <1>4, <1>5, <1>6, <1>7, <1>8, <1>9, <1>10 DEF Next

--------------------------------------------------------------------------------
(* The pause and the end *)

LEMMA PauseStep == RunTypes /\ WeightsInv /\ BackupInv /\ PauseInv /\ [Next]_vars => PauseInv'
<1> SUFFICES ASSUME RunTypes, WeightsInv, BackupInv, PauseInv, [Next]_vars
             PROVE  PauseInv'
  OBVIOUS
<1>1. /\ ctx \in ContextRec /\ disk \in DiskRec /\ told \in ToldRec /\ ctx.epoch \in Nat
      /\ disk.auto # None => disk.auto.epoch \in Nat
  <2>1. ctx \in ContextRec /\ disk \in DiskRec /\ told \in ToldRec
    BY DEF RunTypes
  <2>2. disk.auto # None => disk.auto \in Point
    BY <2>1 DEF DiskRec
  <2>3. ctx.epoch \in Nat
    BY <2>1 DEF ContextRec
  <2>4. QED
    BY <2>1, <2>2, <2>3 DEF Point
<1>8. pc' # "absent" => \A b \in Trained' : b[1] <= ctx'.epoch
  <2>1. WeightsInv'
    BY WeightsStep
  <2>6. ctx'.epoch \in Nat
    BY TypesStep DEF RunTypes, ContextRec
  <2>7. \A b \in Batches' : b[1] \in Nat
    BY DEF Batches
  <2>2. CASE pc' = "epoch"
    <3>1. Trained' = Before(ctx.epoch, FirstBatch(ctx))'
      BY <2>1, <2>2 DEF WeightsInv, Books, Between, Begun, Accounts, Trained
    <3>2. QED
      BY <3>1, <2>6, <2>7 DEF Before
  <2>3. CASE pc' \in InEpoch
    <3>1. Trained' = Before(ctx.epoch, sampler.next)'
      BY <2>1, <2>3 DEF WeightsInv, Books, Within, Accounts, Trained
    <3>2. QED
      BY <3>1, <2>6, <2>7 DEF Before
  <2>4. CASE pc' \notin {"epoch", "absent"} \cup InEpoch
    <3>1. pc # "absent" /\ model' = model /\ ctx' = ctx
      BY <2>4 DEF Next, Boot, vars, EpochStart, SkipNaN, Backward, OptimizerStep, AfterStep, WriteTmp,
         ReplaceStepState, EpochEnd, ReplaceEpochState, WriteConfig, ReplaceAutoState, Remember, Announce,
         Finalize, Exit, Interrupt, EmitPauseState, Kill, InEpoch
    <3>2. QED
      BY <3>1 DEF PauseInv, Trained
  <2>5. QED
    BY <2>2, <2>3, <2>4
<1>2. CASE Boot
  <2>1. /\ pc' = "epoch" /\ disk' = disk /\ told'.backup = ctx'.last /\ ctx'.epoch = ctx'.start
        /\ disk.auto # None => ctx'.epoch = disk.auto.epoch /\ ctx'.last
        /\ disk.auto = None => ~ctx'.last
    BY <1>2, BootBackup
  <2>2. QED
    BY <1>8, <1>1, <2>1 DEF PauseInv
<1>3. CASE ReplaceAutoState
  <2>1. /\ pc = "replace_auto" /\ pc' = "remember" /\ UNCHANGED <<ctx, told>>
        /\ disk' = [disk EXCEPT !.auto = EpochPoint]
    BY <1>3 DEF ReplaceAutoState
  <2>2. disk'.auto = EpochPoint
    BY <1>1, <2>1 DEF DiskRec
  <2>3. EpochPoint.epoch = ctx.epoch + 1 /\ EpochPoint # None
    BY <1>1 DEF EpochPoint, Snapshot, None
  <2>4. QED
    BY <1>8, <1>1, <2>1, <2>2, <2>3 DEF PauseInv
<1>4. CASE Remember
  <2>1. /\ pc = "remember" /\ pc' = "announce" /\ UNCHANGED <<disk, told>>
        /\ ctx' = [ctx EXCEPT !.last = TRUE]
    BY <1>4 DEF Remember
  <2>2. ctx'.last /\ ctx'.epoch = ctx.epoch
    BY <1>1, <2>1 DEF ContextRec
  <2>3. QED
    BY <1>8, <1>1, <2>1, <2>2 DEF PauseInv, BackupInv
<1>5. CASE Announce
  <2>1. /\ pc = "announce" /\ pc' = "epoch" /\ UNCHANGED disk
        /\ ctx' = [ctx EXCEPT !.epoch = @ + 1]
    BY <1>5 DEF Announce
  <2>2. ctx'.epoch = ctx.epoch + 1 /\ ctx'.last = ctx.last
    BY <1>1, <2>1 DEF ContextRec
  <2>3. QED
    BY <1>8, <1>1, <2>1, <2>2 DEF PauseInv, BackupInv
<1>6. CASE ~Boot /\ ~ReplaceAutoState /\ ~Remember /\ ~Announce
  <2>1. disk'.auto = disk.auto
    BY <1>1, <1>6 DEF Next, vars, EpochStart, SkipNaN, Backward, OptimizerStep, Consume, WriteTmp,
       ReplaceStepState, EpochEnd, ReplaceEpochState, WriteConfig, Finalize, Exit, Interrupt,
       EmitPauseState, Kill, DiskRec
  <2>2. pc' # "absent" => told'.backup = told.backup
    BY <1>1, <1>6 DEF Next, vars, EpochStart, SkipNaN, Backward, OptimizerStep, Consume, WriteTmp,
       ReplaceStepState, EpochEnd, ReplaceEpochState, WriteConfig, Finalize, Exit, Interrupt,
       EmitPauseState, Kill, ToldRec
  <2>3. ctx'.epoch = ctx.epoch /\ ctx'.start = ctx.start /\ ctx'.last = ctx.last
    <3>1. CASE OptimizerStep
      <4>1. \/ ctx' = [ctx EXCEPT !.step = @ + 1]
            \/ ctx' = [ctx EXCEPT !.step = @ + 1, !.batch = @ + 1]
        BY <3>1 DEF OptimizerStep
      <4>2. QED
        BY <1>1, <4>1 DEF ContextRec
    <3>2. CASE EpochStart
      BY <1>1, <3>2 DEF EpochStart, ContextRec
    <3>3. CASE SkipNaN \/ Backward \/ ReplaceStepState
      <4>1. ctx' = [ctx EXCEPT !.batch = @ + 1]
        BY <3>3 DEF SkipNaN, Backward, ReplaceStepState
      <4>2. QED
        BY <1>1, <4>1 DEF ContextRec
    <3>4. CASE ctx' = ctx
      BY <3>4
    <3>5. QED
      BY <1>6, <3>1, <3>2, <3>3, <3>4 DEF Next, vars, WriteTmp, EpochEnd, ReplaceEpochState, WriteConfig,
         Finalize, Exit, Interrupt, EmitPauseState, Kill
  <2>4. pc' # "absent" => (pc # "absent" /\ pc' # "announce" /\ (pc = "remember" => pc' \in {"remember", "pausing"}) /\ pc # "pausing") \/ pc = pc'
    BY <1>6 DEF Next, vars, EpochStart, SkipNaN, Backward, OptimizerStep, AfterStep, WriteTmp,
       ReplaceStepState, EpochEnd, ReplaceEpochState, WriteConfig, Finalize, Exit, Interrupt,
       EmitPauseState, Kill
  <2>5. QED
    BY <1>8, <2>1, <2>2, <2>3, <2>4 DEF PauseInv
<1>7. QED
  BY <1>2, <1>3, <1>4, <1>5, <1>6

LEMMA FinishStep == RunTypes /\ WeightsInv /\ BackupInv /\ FinishInv /\ [Next]_vars => FinishInv'
<1> SUFFICES ASSUME RunTypes, WeightsInv, BackupInv, FinishInv, [Next]_vars
             PROVE  FinishInv'
  OBVIOUS
<1>1. args' = args /\ Batches' = Batches /\ args \in Settings
  BY ArgsKept, Rigid DEF RunTypes
<1>2. (AtLimit(ctx.step))' <=> AtLimit(ctx'.step)
  BY <1>1 DEF AtLimit
<1>3. CASE Boot
  BY <1>3, BootBackup DEF FinishInv, Boot
<1>4. CASE Finalize
  <2>1. /\ pc = "finalize" \/ (pc = "epoch" /\ ctx.epoch >= args.epochs)
        /\ pc' = "closing" /\ ctx' = ctx /\ model' = model
    BY <1>4 DEF Finalize
  <2>2. CASE pc = "finalize"
    BY <1>1, <1>2, <2>1, <2>2 DEF FinishInv
  <2>3. CASE pc = "epoch" /\ ctx.epoch >= args.epochs
    <3>1. Begun(model.weights, model.lost, ctx.epoch, FirstBatch(ctx))
      BY <2>3 DEF WeightsInv, Books, Between
    <3>2. ctx.epoch = args.epochs /\ FirstBatch(ctx) = 0
      BY <1>1, <2>3, <3>1, ArgsTyped DEF Begun, StartPosition
    <3>3. Accounts(model.weights, {}, model.lost, Batches)
      BY <1>1, <3>1, <3>2, BeforeEnds DEF Begun
    <3>4. (UNION Range(model.weights)) \cup model.lost = Batches
      BY <3>3 DEF Accounts
    <3>5. QED
      BY <1>1, <2>1, <3>4 DEF FinishInv
  <2>4. QED
    BY <2>1, <2>2, <2>3
<1>5. CASE EpochEnd
  BY <1>2, <1>5 DEF EpochEnd, FinishInv
<1>6. CASE Announce
  BY <1>6 DEF Announce, FinishInv
<1>7. CASE Exit \/ Interrupt \/ EmitPauseState \/ Kill \/ UNCHANGED vars
  <2>1. /\ pc' # "finalize" \/ (pc' = pc /\ ctx' = ctx /\ model' = model)
        /\ pc' \in {"absent", "pausing"} \/ pc' = pc
    BY <1>7 DEF Exit, Interrupt, EmitPauseState, Kill, vars
  <2>2. ctx' = ctx /\ model' = model
    BY <1>7 DEF Exit, Interrupt, EmitPauseState, Kill, vars
  <2>3. told'.finished = told.finished
    <3>1. told \in ToldRec
      BY DEF RunTypes
    <3>2. QED
      BY <1>7, <3>1 DEF Exit, Interrupt, EmitPauseState, Kill, vars, ToldRec
  <2>4. QED
    BY <1>1, <1>2, <2>1, <2>2, <2>3 DEF FinishInv
<1>8. CASE EpochStart \/ SkipNaN \/ Backward \/ OptimizerStep \/ ReplaceStepState \/ ReplaceEpochState
           \/ WriteConfig \/ ReplaceAutoState \/ Remember
           \/ WriteTmp("write_step", "replace_step") \/ WriteTmp("write_epoch", "replace_epoch")
           \/ WriteTmp("write_auto", "replace_auto")
  <2>1. pc \notin {"closing", "pausing", "absent", "finalize"} /\ pc' # "finalize" /\ told' = told
    BY <1>8 DEF EpochStart, SkipNaN, Backward, OptimizerStep, AfterStep, Consume, ReplaceStepState,
       ReplaceEpochState, WriteConfig, ReplaceAutoState, Remember, WriteTmp
  <2>2. QED
    BY <2>1 DEF FinishInv
<1>9. QED
  BY <1>3, <1>4, <1>5, <1>6, <1>7, <1>8 DEF Next

--------------------------------------------------------------------------------
(* The total shown *)

\* The gradient groups of an epoch of len batches that end before position n.
Done(n, len) == IF n = len THEN Ceil(len, args.grad_accum) ELSE Win(n)

LEMMA WinBelow ==
  ASSUME NEW m \in Nat, NEW n \in Nat, m <= n, NEW g \in Nat \ {0}
  PROVE  m \div g <= n \div g
BY SMT

LEMMA DoneCounts ==
  ASSUME args \in Settings, NEW len \in Nat \ {0}, NEW n \in 0..len
  PROVE  /\ Done(n, len) \in Nat /\ Ceil(len, args.grad_accum) \in Nat
         /\ Done(n, len) <= Ceil(len, args.grad_accum)
         /\ Opens(n) \/ n = len => Done(n, len) = Ceil(n, args.grad_accum)
<1> DEFINE g == args.grad_accum
<1>1. g \in Nat \ {0} /\ n \in Nat /\ len - 1 \in Nat
  BY ArgsTyped
<1>2. Ceil(len, g) \in Nat /\ Win(n) \in Nat
  BY CeilTyped, WinMoves, <1>1
<1>3. n # len => Win(n) < Ceil(len, g)
  <2>1. Ceil((len - 1) + 1, g) = (len - 1) \div g + 1
    BY <1>1, CeilUp
  <2>2. (len - 1) + 1 = len
    OBVIOUS
  <2>3. n # len => n \div g <= (len - 1) \div g
    BY <1>1, WinBelow
  <2>4. (len - 1) \div g \in Nat
    BY <1>1, NextDiv
  <2>5. QED
    BY <1>2, <2>1, <2>2, <2>3, <2>4 DEF Win
<1>4. Opens(n) => Win(n) = Ceil(n, g)
  BY <1>1, CeilAtWindow DEF Opens, Win
<1>5. QED
  BY <1>1, <1>2, <1>3, <1>4 DEF Done

\* The count goes up by one exactly where a group ends.
LEMMA DoneMoves ==
  ASSUME args \in Settings, NEW len \in Nat \ {0}, NEW n \in 0..(len - 1)
  PROVE  Done(n + 1, len) = IF IsGroupEnd(n, len) THEN Done(n, len) + 1 ELSE Done(n, len)
<1>1. n \in Nat /\ n # len /\ args.grad_accum \in Nat \ {0}
  BY ArgsTyped
<1>2. Done(n, len) = Win(n) /\ Win(n) \in Nat
  BY <1>1, WinMoves DEF Done
<1>3. CASE n + 1 = len
  <2>1. IsGroupEnd(n, len)
    BY <1>1, <1>3, GroupEndIs
  <2>2. Ceil(n + 1, args.grad_accum) = Win(n) + 1
    BY <1>1, CeilUp DEF Win
  <2>3. QED
    BY <1>2, <1>3, <2>1, <2>2 DEF Done
<1>4. CASE n + 1 # len
  <2>1. Done(n + 1, len) = Win(n + 1)
    BY <1>4 DEF Done
  <2>2. IsGroupEnd(n, len) <=> Opens(n + 1)
    BY <1>1, <1>4, GroupEndIs
  <2>3. QED
    BY <1>1, <1>2, <2>1, <2>2, WinMoves
<1>5. QED
  BY <1>3, <1>4

Estimate(c, s) ==
  c.step - Done(s.next, c.dl_len) + Ceil(c.dl_len, args.grad_accum) * (args.epochs - c.epoch)

\* What process p with context c, sampler s and model m shows.
Shown(p, c, s, m) ==
  m.lost = {} /\ c.start < args.epochs /\ ~AtLimit(c.from) =>
    /\ p = "epoch" => ~AtLimit(c.step) /\ (c.epoch = args.epochs => c.display = c.step)
    /\ p \in InEpoch =>
         /\ c.display = Clip(Estimate(c, s))
         /\ args.max_steps > 0 => c.step <= args.max_steps
    /\ p = "batch" \/ p \in AfterLast => ~AtLimit(c.step)
    /\ p \in {"finalize", "closing"} => c.display = c.step

DisplayInv == Shown(pc, ctx, sampler, model)

LEMMA RigidDisplay ==
  ASSUME args' = args
  PROVE  DisplayInv' <=> Shown(pc', ctx', sampler', model')
BY DEF DisplayInv, Shown, Estimate, Done, Clip, Win, AtLimit

\* Inside an epoch the estimate is an integer no less than the steps taken, and at
\* the end of the last epoch it is the steps taken.
LEMMA EstimateBounds ==
  ASSUME RunTypes, WeightsInv, pc \in InEpoch
  PROVE  /\ Estimate(ctx, sampler) \in Int /\ ctx.step \in Nat
         /\ Estimate(ctx, sampler) >= ctx.step
         /\ sampler.next = ctx.dl_len /\ ctx.epoch + 1 = args.epochs
              => Estimate(ctx, sampler) = ctx.step
<1>1. /\ args \in Settings /\ ctx \in ContextRec /\ sampler \in SamplerRec
      /\ ctx.epoch < args.epochs /\ ctx.dl_len = Packs(ctx.epoch) /\ sampler.next <= ctx.dl_len
  BY DEF RunTypes, WeightsInv, Books, Within
<1>2. ctx.epoch \in Nat /\ ctx.step \in Nat /\ sampler.next \in Nat /\ args.epochs \in Nat
  BY <1>1, ArgsTyped DEF ContextRec, SamplerRec
<1>3. ctx.epoch \in 0..(args.epochs - 1)
  BY <1>1, <1>2
<1>4. ctx.dl_len \in Nat \ {0}
  BY <1>1, <1>3, ArgsTyped
<1>5. sampler.next \in 0..ctx.dl_len
  BY <1>1, <1>2, <1>4
<1> DEFINE groups == Ceil(ctx.dl_len, args.grad_accum)
           done   == Done(sampler.next, ctx.dl_len)
           left   == args.epochs - ctx.epoch
<1>6. /\ groups \in Nat /\ done \in Nat /\ done <= groups /\ left \in Nat /\ left >= 1
      /\ sampler.next = ctx.dl_len => done = groups
  <2>1. groups \in Nat /\ done \in Nat /\ done <= groups
    BY <1>1, <1>4, <1>5, DoneCounts
  <2>2. sampler.next = ctx.dl_len => done = groups
    BY DEF Done
  <2>3. left \in Nat /\ left >= 1
    BY <1>1, <1>2
  <2>4. QED
    BY <2>1, <2>2, <2>3
<1>7. Estimate(ctx, sampler) = ctx.step - done + groups * left
  BY DEF Estimate
<1>8. ctx.epoch + 1 = args.epochs => left = 1
  BY <1>2
<1> HIDE DEF groups, done, left
<1>9. groups * left \in Nat /\ groups * left >= groups /\ (left = 1 => groups * left = groups)
  BY <1>6
<1>10. QED
  BY <1>2, <1>6, <1>7, <1>8, <1>9

LEMMA EpochStartShown ==
  ASSUME RunTypes, WeightsInv, DisplayInv, EpochStart
  PROVE  Shown(pc', ctx', sampler', model')
<1> DEFINE skip == FirstBatch(ctx)
           len  == Packs(ctx.epoch)
<1>1. /\ ctx \in ContextRec /\ sampler \in SamplerRec /\ args \in Settings
      /\ pc = "epoch" /\ pc' = "batch" /\ ctx.epoch < args.epochs /\ model' = model
  BY DEF RunTypes, EpochStart
<1>2. /\ sampler' = SamplerIter(IF skip > 0 THEN skip ELSE sampler.skip)
      /\ ctx' = [ctx EXCEPT !.dl_len = len, !.batch = skip,
                   !.display = DisplayTotal(ctx.step, skip, len, ctx.epoch)]
  BY Zenon DEF EpochStart, EpochLength, FirstBatch
<1>3. /\ ctx.epoch \in Nat /\ ctx.step \in Nat /\ ctx.offset \in Nat /\ sampler.skip = 0
  BY <1>1 DEF ContextRec, SamplerRec
<1>4. ctx.epoch \in 0..(args.epochs - 1) /\ len \in Nat \ {0}
  BY <1>1, <1>3, ArgsTyped
<1>5. skip \in 0..len /\ (Opens(skip) \/ skip = len)
  <2>1. StartPosition(ctx.epoch, skip)
    BY <1>1 DEF WeightsInv, Books, Between, Begun
  <2>2. QED
    BY <1>1, <2>1 DEF StartPosition, Boundary
<1> HIDE DEF skip, len
<1>6. sampler'.next = skip
  BY <1>2, <1>3, <1>4, <1>5 DEF SamplerIter
<1>7. /\ ctx'.epoch = ctx.epoch /\ ctx'.dl_len = len /\ ctx'.step = ctx.step /\ ctx'.start = ctx.start
      /\ ctx'.from = ctx.from /\ ctx'.display = DisplayTotal(ctx.step, skip, len, ctx.epoch)
  BY <1>1, <1>2 DEF ContextRec
<1>8. ctx'.display = Clip(Estimate(ctx', sampler'))
  <2>1. Done(skip, len) = Ceil(skip, args.grad_accum)
    BY <1>1, <1>4, <1>5, DoneCounts
  <2>2. skip \in Nat
    BY <1>4, <1>5
  <2>3. DisplayTotal(ctx.step, skip, len, ctx.epoch)
          = Clip(ctx.step - Ceil(skip, args.grad_accum) + Ceil(len, args.grad_accum) * (args.epochs - ctx.epoch))
    BY <1>1, <1>3, <1>4, <2>2, DisplayTyped DEF len
  <2>4. Estimate(ctx', sampler')
          = ctx.step - Ceil(skip, args.grad_accum) + Ceil(len, args.grad_accum) * (args.epochs - ctx.epoch)
    BY <1>6, <1>7, <2>1 DEF Estimate
  <2>5. QED
    BY <1>7, <2>3, <2>4
<1>9. ~AtLimit(ctx.step) => (args.max_steps > 0 => ctx.step <= args.max_steps)
  BY <1>1, <1>3, ArgsTyped DEF AtLimit
<1>10. QED
  BY <1>1, <1>7, <1>8, <1>9 DEF DisplayInv, Shown, AfterLast

LEMMA StepShown ==
  ASSUME RunTypes, WeightsInv, DisplayInv, Backward \/ OptimizerStep
  PROVE  Shown(pc', ctx', sampler', model')
<1>1. /\ pc = "batch" /\ ~Drained /\ sampler' = [sampler EXCEPT !.next = @ + 1]
      /\ ctx \in ContextRec /\ sampler \in SamplerRec /\ model \in ModelRec
  BY DEF RunTypes, Backward, OptimizerStep, Consume
<1>2. /\ args \in Settings /\ ctx.epoch \in 0..(args.epochs - 1)
      /\ sampler.next \in 0..(Packs(ctx.epoch) - 1) /\ ctx.dl_len = Packs(ctx.epoch)
      /\ ctx.batch = sampler.next /\ ctx.step \in Nat
  BY <1>1, AtBatch
<1>3. ctx.dl_len \in Nat \ {0} /\ sampler.next \in 0..(ctx.dl_len - 1) /\ sampler.next \in 0..ctx.dl_len
  BY <1>2, ArgsTyped
<1>4. sampler'.next = sampler.next + 1
  BY <1>1 DEF SamplerRec
<1>5. /\ ctx'.epoch = ctx.epoch /\ ctx'.dl_len = ctx.dl_len /\ ctx'.start = ctx.start
      /\ ctx'.from = ctx.from /\ ctx'.display = ctx.display
      /\ ctx'.step = IF IsGroupEnd(sampler.next, ctx.dl_len) THEN ctx.step + 1 ELSE ctx.step
  <2>1. CASE Backward
    <3>1. ctx' = [ctx EXCEPT !.batch = @ + 1] /\ ~IsGroupEnd(sampler.next, ctx.dl_len)
      BY <1>2, <2>1 DEF Backward
    <3>2. QED
      BY <1>1, <3>1 DEF ContextRec
  <2>2. CASE OptimizerStep
    <3>1. /\ \/ ctx' = [ctx EXCEPT !.step = @ + 1]
             \/ ctx' = [ctx EXCEPT !.step = @ + 1, !.batch = @ + 1]
          /\ IsGroupEnd(sampler.next, ctx.dl_len)
      BY <1>2, <2>2 DEF OptimizerStep
    <3>2. QED
      BY <1>1, <3>1 DEF ContextRec
  <2>3. QED
    BY <2>1, <2>2
<1>6. model'.lost = model.lost
  BY <1>1 DEF Backward, OptimizerStep, ModelRec
<1>7. Estimate(ctx', sampler') = Estimate(ctx, sampler)
  <2>1. Done(sampler'.next, ctx'.dl_len)
          = IF IsGroupEnd(sampler.next, ctx.dl_len) THEN Done(sampler.next, ctx.dl_len) + 1
                                                    ELSE Done(sampler.next, ctx.dl_len)
    BY <1>2, <1>3, <1>4, <1>5, DoneMoves
  <2>2. Done(sampler.next, ctx.dl_len) \in Nat
    BY <1>2, <1>3, DoneCounts
  <2> DEFINE done == Done(sampler.next, ctx.dl_len)
             rest == Ceil(ctx.dl_len, args.grad_accum) * (args.epochs - ctx.epoch)
  <2>3. Estimate(ctx, sampler) = ctx.step - done + rest
    BY DEF Estimate
  <2>4. Estimate(ctx', sampler')
          = ctx'.step - (IF IsGroupEnd(sampler.next, ctx.dl_len) THEN done + 1 ELSE done) + rest
    BY <1>5, <2>1 DEF Estimate
  <2> HIDE DEF done, rest
  <2>5. ctx'.step - (IF IsGroupEnd(sampler.next, ctx.dl_len) THEN done + 1 ELSE done) = ctx.step - done
    BY <1>2, <1>5, <2>2 DEF done
  <2>6. QED
    BY <2>3, <2>4, <2>5
<1>8. ~AtLimit(ctx.step) => (args.max_steps > 0 => ctx'.step <= args.max_steps)
  BY <1>2, <1>5, ArgsTyped DEF AtLimit
<1>9. /\ pc' \in {"batch", "write_step", "epoch_end"}
      /\ pc' = "batch" => ~AtLimit(ctx'.step) \/ ctx'.step = ctx.step
  BY <1>1, <1>2, <1>5 DEF Backward, OptimizerStep, AfterStep
<1>10. QED
  BY <1>1, <1>5, <1>6, <1>7, <1>8, <1>9 DEF DisplayInv, Shown, InEpoch, AfterLast

LEMMA EndShown ==
  ASSUME RunTypes, WeightsInv, DisplayInv, EpochEnd
  PROVE  Shown(pc', ctx', sampler', model')
<1>1. /\ pc = "epoch_end" \/ (pc = "batch" /\ UNCHANGED <<ctx, sampler, model>>)
      /\ pc' = IF AtLimit(ctx.step) THEN "finalize"
               ELSE IF Due(ctx.epoch + 1, args.save_state_every_epochs) THEN "write_epoch"
               ELSE "config"
  BY DEF EpochEnd
<1>2. UNCHANGED <<ctx, sampler, model>> /\ pc \in InEpoch /\ args \in Settings
  BY DEF EpochEnd, InEpoch, RunTypes
<1>3. CASE AtLimit(ctx.step)
  <2>1. pc' = "finalize"
    BY <1>1, <1>3
  <2>2. ASSUME model.lost = {}, ctx.start < args.epochs, ~AtLimit(ctx.from)
        PROVE  ctx.display = ctx.step
    <3>1. ctx.display = Clip(Estimate(ctx, sampler)) /\ (args.max_steps > 0 => ctx.step <= args.max_steps)
      BY <1>2, <2>2 DEF DisplayInv, Shown
    <3>2. Estimate(ctx, sampler) \in Int /\ ctx.step \in Nat /\ Estimate(ctx, sampler) >= ctx.step
      BY <1>2, EstimateBounds
    <3>3. args.max_steps \in Nat /\ args.max_steps > 0 /\ ctx.step = args.max_steps
      BY <1>2, <1>3, <3>1, <3>2, ArgsTyped DEF AtLimit
    <3>4. QED
      BY <1>2, <3>1, <3>2, <3>3, ClipIs
  <2>3. QED
    BY <1>2, <2>1, <2>2 DEF Shown, InEpoch, AfterLast
<1>4. CASE ~AtLimit(ctx.step)
  <2>1. pc' \in {"write_epoch", "config"}
    BY <1>1, <1>4
  <2>2. QED
    BY <1>2, <1>4, <2>1 DEF DisplayInv, Shown, InEpoch, AfterLast
<1>5. QED
  BY <1>3, <1>4

LEMMA AnnounceShown ==
  ASSUME RunTypes, WeightsInv, DisplayInv, Announce
  PROVE  Shown(pc', ctx', sampler', model')
<1>1. /\ pc = "announce" /\ pc' = "epoch" /\ UNCHANGED <<sampler, model>> /\ ctx \in ContextRec
      /\ args \in Settings /\ ctx' = [ctx EXCEPT !.epoch = @ + 1]
  BY DEF RunTypes, Announce
<1>2. /\ ctx'.epoch = ctx.epoch + 1 /\ ctx'.step = ctx.step /\ ctx'.start = ctx.start
      /\ ctx'.from = ctx.from /\ ctx'.display = ctx.display
  BY <1>1 DEF ContextRec
<1>3. sampler.next = ctx.dl_len
  BY <1>1 DEF WeightsInv, Books, Within, InEpoch, AfterLast
<1>4. ASSUME model.lost = {}, ctx.start < args.epochs, ~AtLimit(ctx.from)
      PROVE  ~AtLimit(ctx.step) /\ (ctx.epoch + 1 = args.epochs => ctx.display = ctx.step)
  <2>1. ctx.display = Clip(Estimate(ctx, sampler)) /\ ~AtLimit(ctx.step)
    BY <1>1, <1>4 DEF DisplayInv, Shown, InEpoch, AfterLast
  <2>2. ctx.step \in Nat /\ (ctx.epoch + 1 = args.epochs => Estimate(ctx, sampler) = ctx.step)
    BY <1>1, <1>3, EstimateBounds DEF InEpoch
  <2>3. Clip(ctx.step) = ctx.step
    BY <1>1, <2>1, <2>2, ArgsTyped, ClipIs DEF AtLimit
  <2>4. QED
    BY <2>1, <2>2, <2>3
<1>5. QED
  BY <1>1, <1>2, <1>4 DEF Shown, InEpoch, AfterLast

LEMMA DisplayStep ==
  RunTypes /\ WeightsInv /\ BackupInv /\ DisplayInv /\ [Next]_vars => DisplayInv'
<1> SUFFICES ASSUME RunTypes, WeightsInv, BackupInv, DisplayInv, [Next]_vars
             PROVE  Shown(pc', ctx', sampler', model')
  BY ArgsKept, RigidDisplay
<1>1. /\ ctx \in ContextRec /\ model \in ModelRec /\ args \in Settings
  BY DEF RunTypes
<1>2. CASE Boot
  <2>1. PICK point \in ResumePoints :
          IF point = None
            THEN ctx' = [NoContext EXCEPT !.display = TotalSteps] /\ model' = NoModel
            ELSE LoadTrainingState(point)
    BY <1>2 DEF Boot
  <2>2. ctx'.from = ctx'.step /\ ctx'.epoch = ctx'.start /\ pc' = "epoch"
    <3>1. pc' = "epoch"
      BY <1>2 DEF Boot
    <3>2. CASE point = None
      BY <2>1, <3>1, <3>2 DEF NoContext
    <3>3. CASE point # None
      <4>1. /\ ctx'.from = point.step /\ ctx'.step = point.step
            /\ ctx'.epoch = point.epoch /\ ctx'.start = point.epoch
        BY <2>1, <3>3 DEF LoadTrainingState, NoContext
      <4>2. QED
        BY <3>1, <4>1
    <3>4. QED
      BY <3>2, <3>3
  <2>3. ctx'.start < args.epochs => ctx'.start # args.epochs
    BY <1>1, ArgsTyped
  <2>4. QED
    BY <2>2, <2>3 DEF Shown, InEpoch, AfterLast
<1>3. CASE SkipNaN
  <2>1. Current \in model'.lost
    BY <1>1, <1>3 DEF SkipNaN, ZeroGrad, ModelRec
  <2>2. QED
    BY <2>1 DEF Shown
<1>4. CASE ReplaceStepState \/ Remember
  <2>1. ctx' = [ctx EXCEPT !.batch = @ + 1] \/ ctx' = [ctx EXCEPT !.last = TRUE]
    BY <1>4 DEF ReplaceStepState, Remember
  <2>2. /\ ctx'.epoch = ctx.epoch /\ ctx'.dl_len = ctx.dl_len /\ ctx'.step = ctx.step
        /\ ctx'.start = ctx.start /\ ctx'.from = ctx.from /\ ctx'.display = ctx.display
    BY <1>1, <2>1 DEF ContextRec
  <2>3. UNCHANGED <<sampler, model>>
    BY <1>4 DEF ReplaceStepState, Remember
  <2>4. Estimate(ctx', sampler') = Estimate(ctx, sampler)
    BY <2>2, <2>3 DEF Estimate
  <2>5. \/ pc = "replace_step" /\ pc' = AfterStep(ctx.step)
        \/ pc = "remember" /\ pc' = "announce"
    BY <1>4 DEF ReplaceStepState, Remember
  <2>6. QED
    BY <2>2, <2>3, <2>4, <2>5 DEF DisplayInv, Shown, AfterStep, InEpoch, AfterLast
<1>5. CASE Finalize
  <2>1. /\ pc = "finalize" \/ (pc = "epoch" /\ ctx.epoch >= args.epochs)
        /\ pc' = "closing" /\ UNCHANGED <<ctx, sampler, model>>
    BY <1>5 DEF Finalize
  <2>2. ctx.epoch >= args.epochs => ctx.epoch = args.epochs
    BY <1>1, ArgsTyped DEF ContextRec
  <2>3. QED
    BY <2>1, <2>2 DEF DisplayInv, Shown, InEpoch, AfterLast
<1>6. CASE WriteTmp("write_step", "replace_step") \/ WriteTmp("write_epoch", "replace_epoch")
           \/ WriteTmp("write_auto", "replace_auto") \/ ReplaceEpochState \/ WriteConfig
           \/ ReplaceAutoState \/ UNCHANGED vars
  <2>1. /\ UNCHANGED <<ctx, sampler, model>>
        /\ pc' = pc \/ {pc, pc'} \subseteq InStep \/ {pc, pc'} \subseteq AfterLast
    BY <1>6 DEF WriteTmp, ReplaceEpochState, WriteConfig, ReplaceAutoState, vars, InStep, AfterLast
  <2>2. QED
    BY <2>1 DEF DisplayInv, Shown, InEpoch, AfterLast, InStep
<1>7. CASE Exit \/ Interrupt \/ EmitPauseState \/ Kill
  <2>1. pc' \in {"absent", "pausing"}
    BY <1>7 DEF Exit, Interrupt, EmitPauseState, Kill
  <2>2. QED
    BY <2>1 DEF Shown, InEpoch, AfterLast
<1>8. QED
  BY <1>2, <1>3, <1>4, <1>5, <1>6, <1>7, EpochStartShown, StepShown, EndShown, AnnounceShown DEF Next

--------------------------------------------------------------------------------
(* The theorems *)

RunInv == RunTypes /\ WeightsInv /\ BackupInv /\ PauseInv /\ FinishInv /\ DisplayInv

LEMMA InitRun == Init => RunInv
<1> SUFFICES ASSUME Init
             PROVE  RunInv
  OBVIOUS
<1>1. args \in Settings /\ args.epochs \in Nat \ {0} /\ MaxRuns \in Nat /\ MaxNaNs \in Nat
  BY ArgsTyped, RunsAssumption DEF Init
<1>2. /\ pc = "absent" /\ ctx = NoContext /\ model = NoModel /\ told = Untold
      /\ disk.auto = None /\ disk.saved = {}
  BY DEF Init
<1>3. RunTypes
  <2>1. ctx \in ContextRec /\ model \in ModelRec
    BY <1>1, <1>2 DEF NoContext, NoModel, ContextRec, ModelRec
  <2>2. sampler \in SamplerRec /\ disk \in DiskRec /\ told \in ToldRec /\ bounds \in BoundsRec
    BY <1>1 DEF Init, SamplerRec, DiskRec, ToldRec, BoundsRec, Untold
  <2>3. QED
    BY <1>1, <1>2, <2>1, <2>2 DEF RunTypes, Locations
<1>4. WeightsInv
  <2>1. ctx.start = 0 /\ ctx.epoch = 0 /\ ctx.step = 0 /\ model.weights = <<>> /\ model.ema = 0
    BY <1>2 DEF NoContext, NoModel
  <2>2. Counted(ctx, model)
    BY <1>1, <2>1, EmaCounts DEF Counted
  <2>3. QED
    BY <1>2, <2>2 DEF WeightsInv, Books, PointsOf, Between, Within, InEpoch
<1>5. BackupInv /\ PauseInv /\ FinishInv
  BY <1>2 DEF BackupInv, PauseInv, FinishInv, Untold, Looping, InEpoch
<1>6. DisplayInv
  BY <1>2 DEF DisplayInv, Shown, InEpoch, AfterLast
<1>7. QED
  BY <1>3, <1>4, <1>5, <1>6 DEF RunInv

\* The books of a run, for every settings: inductive.
THEOREM RunInvariant == TrainingSpec => []RunInv
<1>1. RunInv /\ [Next]_vars => RunInv'
  BY TypesStep, WeightsStep, BackupStep, PauseStep, FinishStep, DisplayStep DEF RunInv
<1>2. QED
  BY InitRun, <1>1, PTL DEF TrainingSpec

\* The state of a run has its type: the step count is the number of groups in the
\* weights, and the position in the epoch never passes its length (loop.run).
THEOREM TrainingTypes == TrainingSpec => []TrainingTypeOK
<1>1. RunInv => TrainingTypeOK
  <2> SUFFICES ASSUME RunInv
               PROVE  TrainingTypeOK
    OBVIOUS
  <2>1. /\ args \in Settings /\ pc \in Locations /\ ctx \in ContextRec /\ sampler \in SamplerRec
        /\ model \in ModelRec /\ told \in ToldRec /\ bounds \in BoundsRec
    BY DEF RunInv, RunTypes
  <2>2. ctx.step = Len(model.weights) /\ ctx.epoch \in 0..args.epochs
    BY <2>1 DEF RunInv, WeightsInv, Books, Counted, ContextRec
  <2>3. pc \in InEpoch => ctx.batch \in 0..ctx.dl_len
    <3>1. pc \in InEpoch => sampler.next <= ctx.dl_len /\ sampler.next \in {ctx.batch, ctx.batch + 1}
      BY DEF RunInv, WeightsInv, Books, Within
    <3>2. ctx.batch \in Nat /\ ctx.dl_len \in Nat
      BY <2>1 DEF ContextRec
    <3>3. QED
      BY <3>1, <3>2
  <2>4. sampler.next \in Nat /\ sampler.skip \in Nat /\ told.paused \in {"no", "backup", "nothing"}
    BY <2>1 DEF SamplerRec, ToldRec
  <2>5. /\ model.grads \subseteq Batches /\ model.lost \subseteq Batches
        /\ \A i \in DOMAIN model.weights : model.weights[i] \subseteq Batches
    <3>1. /\ model.weights \in Seq(SUBSET Batches) /\ model.grads \subseteq Batches
          /\ model.lost \subseteq Batches
      BY <2>1 DEF ModelRec
    <3>2. QED
      BY <3>1, LenProperties, ElementOfSeq
  <2>6. bounds.runs \in 0..MaxRuns /\ bounds.nans \in 0..MaxNaNs
    BY <2>1 DEF BoundsRec
  <2>7. QED
    BY <2>1, <2>2, <2>3, <2>4, <2>5, <2>6 DEF TrainingTypeOK
<1>2. QED
  BY RunInvariant, <1>1, PTL

\* However often the task was paused, killed and resumed, the weights are made of
\* the batches an uninterrupted run would have seen, each once (loop.run).
THEOREM BatchesOnce == TrainingSpec => []EveryBatchOnce
<1>1. RunInv => EveryBatchOnce
  BY DEF RunInv, WeightsInv, Books, Within, EveryBatchOnce
<1>2. QED
  BY RunInvariant, <1>1, PTL

\* Every recovery point on disk, whenever the process dies, is such a state
\* (save_training_state).
THEOREM PointsExact == TrainingSpec => []RecoveryPointsExact
<1>1. RunInv => RecoveryPointsExact
  BY DEF RunInv, WeightsInv, Books, PointsOf, PointOK, Begun, EmaOf, RecoveryPoints, RecoveryPointsExact
<1>2. QED
  BY RunInvariant, <1>1, PTL

\* A pause costs at most one epoch, whole or in part; the one backup it can deny is
\* the first of its process, and none that was announced (handle_interrupt).
THEOREM PauseCost == TrainingSpec => []PauseCostsOneEpoch
<1>1. RunInv => PauseCostsOneEpoch
  <2> SUFFICES ASSUME RunInv, pc = "pausing"
               PROVE  /\ told.backup => ctx.last
                      /\ \A b \in Trained : b[1] <= (IF ctx.last THEN disk.auto.epoch ELSE ctx.start)
                      /\ ~ctx.last /\ disk.auto # None
                           => disk.auto.epoch = ctx.start + 1 /\ ctx.epoch = ctx.start
    BY DEF PauseCostsOneEpoch
  <2>1. ctx.epoch \in Nat /\ (disk.auto # None => disk.auto.epoch \in Nat)
    BY DEF RunInv, RunTypes, ContextRec, DiskRec, Point
  <2>2. Trained \subseteq Batches
    BY LenProperties, ElementOfSeq DEF Trained, RunInv, RunTypes, ModelRec, Range
  <2>3. \A b \in Trained : b[1] \in Nat
    BY <2>2 DEF Batches
  <2>4. QED
    BY <2>1, <2>3 DEF RunInv, PauseInv
<1>2. QED
  BY RunInvariant, <1>1, PTL

\* A backup never lies on disk without its settings (write_config_snapshot).
THEOREM BackupPair == TrainingSpec => []BackupIsAPair
<1>1. RunInv => BackupIsAPair
  BY DEF RunInv, BackupInv, BackupIsAPair
<1>2. QED
  BY RunInvariant, <1>1, PTL

\* A training that reports its end has seen everything, or met its limit (finalize).
THEOREM FinishWhole == TrainingSpec => []FinishedIsWhole
<1>1. RunInv => FinishedIsWhole
  BY DEF RunInv, FinishInv, FinishedIsWhole
<1>2. QED
  BY RunInvariant, <1>1, PTL

\* The total shown at the end is the number of steps taken (_display_total_steps).
THEOREM DisplayExact == TrainingSpec => []DisplayIsExact
<1>1. RunInv => DisplayIsExact
  BY DEF RunInv, DisplayInv, Shown, DisplayIsExact
<1>2. QED
  BY RunInvariant, <1>1, PTL

LEMMA PrefixOf ==
  ASSUME NEW S, NEW s \in Seq(S), NEW t \in Seq(S), Extends(s, t)
  PROVE  IsPrefix(s, t)
<1>1. Len(s) \in Nat /\ Len(t) \in Nat /\ Len(s) <= Len(t) /\ \A i \in 1..Len(s) : t[i] = s[i]
  BY LenProperties DEF Extends
<1>2. \A i \in 1..Len(s) : s[i] \in S /\ t[i] \in S
  BY <1>1, ElementOfSeq
<1>3. /\ SubSeq(s, 1, Len(s)) \in Seq(S) /\ Len(SubSeq(s, 1, Len(s))) = Len(s)
      /\ \A i \in 1..Len(s) : SubSeq(s, 1, Len(s))[i] = s[i]
  BY <1>1, <1>2, SubSeqProperties
<1>4. /\ SubSeq(t, 1, Len(s)) \in Seq(S) /\ Len(SubSeq(t, 1, Len(s))) = Len(s)
      /\ \A i \in 1..Len(s) : SubSeq(t, 1, Len(s))[i] = t[i]
  BY <1>1, <1>2, SubSeqProperties
<1>5. SubSeq(s, 1, Len(s)) = SubSeq(t, 1, Len(s))
  BY <1>1, <1>3, <1>4, SeqEqual
<1>6. QED
  BY <1>1, <1>5 DEF IsPrefix

\* Each backup continues the one it overwrites (the single file of loop.run).
THEOREM BackupGoesOn == TrainingSpec => BackupContinues
<1>1. RunInv /\ [Next]_vars
        => [disk.auto # None =>
              disk'.auto.epoch >= disk.auto.epoch /\ IsPrefix(disk.auto.weights, disk'.auto.weights)]_vars
  <2> SUFFICES ASSUME RunInv, [Next]_vars, disk.auto # None
               PROVE  disk'.auto.epoch >= disk.auto.epoch /\ IsPrefix(disk.auto.weights, disk'.auto.weights)
    OBVIOUS
  <2>1. disk \in DiskRec /\ ctx \in ContextRec /\ model \in ModelRec /\ disk.auto \in Point
    BY DEF RunInv, RunTypes, DiskRec
  <2>2. /\ disk.auto.epoch \in Nat /\ ctx.epoch \in Nat
        /\ disk.auto.weights \in Seq(SUBSET Batches) /\ model.weights \in Seq(SUBSET Batches)
    <3>1. ctx.epoch \in Nat
      BY <2>1 DEF ContextRec
    <3>2. model.weights \in Seq(SUBSET Batches)
      BY <2>1 DEF ModelRec
    <3>3. QED
      BY <2>1, <3>1, <3>2 DEF Point
  <2>3. CASE ReplaceAutoState
    <3>1. pc = "replace_auto" /\ disk' = [disk EXCEPT !.auto = EpochPoint]
      BY <2>3 DEF ReplaceAutoState
    <3>2. disk'.auto = EpochPoint
      BY <2>1, <3>1 DEF DiskRec
    <3>3. disk'.auto.epoch = ctx.epoch + 1 /\ disk'.auto.weights = model.weights
      BY <3>2 DEF EpochPoint, Snapshot
    <3>4. Extends(disk.auto.weights, model.weights) /\ disk.auto.epoch <= ctx.epoch
      BY <3>1 DEF RunInv, BackupInv, Looping, InEpoch
    <3>5. IsPrefix(disk.auto.weights, model.weights)
      BY <2>2, <3>4, PrefixOf
    <3>6. QED
      BY <2>2, <3>3, <3>4, <3>5
  <2>4. CASE ~ReplaceAutoState
    <3>1. disk'.auto = disk.auto
      BY <2>1, <2>4 DEF Next, vars, Boot, EpochStart, SkipNaN, Backward, OptimizerStep, Consume, WriteTmp,
         ReplaceStepState, EpochEnd, ReplaceEpochState, WriteConfig, Remember, Announce, Finalize, Exit,
         Interrupt, EmitPauseState, Kill, DiskRec
    <3>2. Extends(disk.auto.weights, disk.auto.weights)
      BY <2>2, BatchExtends
    <3>3. IsPrefix(disk.auto.weights, disk.auto.weights)
      BY <2>2, <3>2, PrefixOf
    <3>4. QED
      BY <2>2, <3>1, <3>3
  <2>5. QED
    BY <2>3, <2>4
<1>2. QED
  BY RunInvariant, <1>1, PTL DEF TrainingSpec, BackupContinues
================================================================================
