------------------------------ MODULE MCSigner ------------------------------
(***************************************************************************)
(* The signer: who owns the key, what one signing request does, and which  *)
(* messages a grant lets it sign.  The parts share no state, so one run    *)
(* explores them side by side: `part` says which of them moves and the     *)
(* variables of the others rest.                                           *)
(***************************************************************************)
EXTENDS SignerOwnership

VARIABLE part   \* the component this behaviour is about
VARIABLES time, grant, lease, leasedTo, hold, shadow, disk, mem, stamps, up,
          call, signed, returned, faults, rows, record, table, terminal, rate

Off == 0   \* the value of a variable that no component in the run uses

serviceAndCallersVars == <<grant, lease, leasedTo, hold, shadow, disk, mem,
                           stamps, up, call, signed, returned, faults>>
grantsAndGatesVars == <<rows, record, table, terminal, rate>>

serviceAndCallersOff == /\ grant = Off /\ lease = Off /\ leasedTo = Off
                        /\ hold = Off /\ shadow = Off /\ disk = Off
                        /\ mem = Off /\ stamps = Off /\ up = Off
                        /\ call = Off /\ signed = Off /\ returned = Off
                        /\ faults = Off
grantsAndGatesOff == /\ rows = Off /\ record = Off /\ table = Off
                     /\ terminal = Off /\ rate = Off

Service == INSTANCE SignerService WITH
  Ops <- {"o1", "o2"}, Callers <- {"c1"}, Hour <- 1, KeepFor <- 2,
  MaxToken <- 2, MaxHourly <- 1, MaxPerMinute <- 2, MaxTime <- 2,
  MaxFaults <- 1
Callers == INSTANCE SignerService WITH
  Ops <- {"o1"}, Callers <- {"c1", "c2"}, Hour <- 1, KeepFor <- 2,
  MaxToken <- 2, MaxHourly <- 1, MaxPerMinute <- 2, MaxTime <- 2,
  MaxFaults <- 1
Grants == INSTANCE SignerGrants WITH
  MaxGrants <- 3, MaxTime <- 2, Skew <- 1, Life <- 2, Kinds <- {"fee-setup"}
Gates == INSTANCE SignerGrants WITH
  MaxGrants <- 1, MaxTime <- 1, Skew <- 0, Life <- 2,
  Kinds <- {"keeper", "fee-setup", "operating-return"}

MCInit ==
  \/ /\ part = "ownership" /\ Init /\ time = Off /\ serviceAndCallersOff
     /\ grantsAndGatesOff
  \/ /\ part = "service" /\ Init /\ skew = 0 /\ Service!Init
     /\ grantsAndGatesOff
  \/ /\ part = "callers" /\ Init /\ skew = 0 /\ Callers!Init
     /\ grantsAndGatesOff
  \/ /\ part = "grants" /\ Init /\ skew = 0 /\ Grants!Init
     /\ serviceAndCallersOff
  \/ /\ part = "gates" /\ Init /\ skew = 0 /\ Gates!Init
     /\ serviceAndCallersOff

MCNext ==
  \/ /\ part = "ownership" /\ Next
     /\ UNCHANGED <<part, time, serviceAndCallersVars, grantsAndGatesVars>>
  \/ /\ part = "service" /\ Service!Next
     /\ UNCHANGED <<part, vars, grantsAndGatesVars>>
  \/ /\ part = "callers" /\ Callers!Next
     /\ UNCHANGED <<part, vars, grantsAndGatesVars>>
  \/ /\ part = "grants" /\ Grants!Next
     /\ UNCHANGED <<part, vars, serviceAndCallersVars>>
  \/ /\ part = "gates" /\ Gates!Next
     /\ UNCHANGED <<part, vars, serviceAndCallersVars>>

mcVars == <<part, vars, time, serviceAndCallersVars, grantsAndGatesVars>>
MCSpec == MCInit /\ [][MCNext]_mcVars

-----------------------------------------------------------------------------
\* What was signed stays within the hourly limit and inside its lease, and what
\* was returned is recorded, across crashes and disk errors (signer-service.mjs).
\* The last grant committed decides, whatever clock the granting hosts read; it
\* signs what its jobs send and nothing for a stranger, and its ceiling covers
\* what the ledger takes (grants.mjs, message-policy.mjs).
SignedIsGranted ==
  /\ part = "service" => /\ Service!SpendBounded /\ Service!SignedWhileLeased
                         /\ Service!ReturnedIsRecorded
  /\ part = "callers" => /\ Callers!SpendBounded /\ Callers!SignedWhileLeased
                         /\ Callers!ReturnedIsRecorded
  /\ part = "grants" => Grants!LatestGrantDecides
  /\ part = "gates" => Gates!SignsOnlyGranted /\ Gates!WorkIsSigned /\ Gates!CeilingCovers

\* No signature for an older lease follows one for a newer lease of the same
\* job, whichever caller is late (signer-service.mjs 103-118).
FencedSigning ==
  [][/\ part = "service" => Service!FencedSigning
     /\ part = "callers" => Callers!FencedSigning]_mcVars
=============================================================================
