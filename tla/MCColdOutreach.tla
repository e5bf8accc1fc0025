--------------------------- MODULE MCColdOutreach ---------------------------
(***************************************************************************)
(* Instances of ColdOutreach for TLC.  Every limit is 1 or 2, so that it   *)
(* is reached, passed and reset within a few steps.                        *)
(***************************************************************************)
EXTENDS ColdOutreach, TLC

Config(batch) ==
  [acc |-> MaxAcc, total |-> MaxTotal, outreach |-> TRUE,
   enabled |-> Accounts, batch |-> batch]

\* One lead per round, or two: more than a limit of 1 allows to be sent.
MCSingle == {Config(1)}
MCBatch == {Config(2)}

\* The admin switches outreach off, or both accounts, and on again.
MCOnOff ==
  {Config(2),
   [Config(2) EXCEPT !.outreach = FALSE, !.enabled = {}],
   [Config(2) EXCEPT !.outreach = FALSE]}

MCEnvLimits == [acc |-> MaxAcc, total |-> MaxTotal, paced |-> TRUE]

MCSymmetry == Permutations(Accounts) \cup Permutations(Leads)

=============================================================================
