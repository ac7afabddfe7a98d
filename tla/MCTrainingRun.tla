----------------------------- MODULE MCTrainingRun -----------------------------
(***************************************************************************)
(* Instances of TrainingRun for TLC.                                          *)
(***************************************************************************)
EXTENDS TrainingRun, TLC

Args(packs, accum, max, steps, epochs, ema) ==
  [epochs |-> Len(packs), packs |-> packs, grad_accum |-> accum, max_steps |-> max,
   save_state_every_steps |-> steps, save_state_every_epochs |-> epochs, ema_start |-> ema]

\* Packs that shrink and grow, tails of one batch, states saved on every step, on
\* the last step of an epoch, and on the step that meets the limit.
SomeSettings ==
  { Args(<<3, 2>>, 2, 0, 1, 0, 2),
    Args(<<2, 3>>, 2, 0, 2, 1, 0),
    Args(<<2, 1, 2>>, 1, 0, 3, 2, 1),
    Args(<<3, 4>>, 1, 2, 2, 1, 0),
    Args(<<4, 4>>, 3, 3, 2, 1, 0) }
================================================================================
