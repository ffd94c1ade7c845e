------------------------------ MODULE Battery ------------------------------
(***************************************************************************)
(* The battery and the acceptance check of a dispatch: BatteryConfig and   *)
(* validate_dispatch() of optimization/model.py. Power, energy and the     *)
(* tolerance are integers in one unit (an hour's power is that hour's      *)
(* energy), efficiencies are fractions; the rounding of floating-point     *)
(* arithmetic itself is left out. The solver (CVXPY and HiGHS) is external *)
(* and not trusted: it may return any numbers.                             *)
(***************************************************************************)
EXTENDS Integers

CONSTANTS
    Capacity,      \* energy_capacity_mwh
    MaxCharge,     \* max_charge_mw
    MaxDischarge,  \* max_discharge_mw
    ChargeNum, ChargeDen,        \* charge_efficiency
    DischargeNum, DischargeDen,  \* discharge_efficiency
    InitialSoc,    \* initial_soc_mwh
    TerminalSoc,   \* terminal_soc_mwh
    Tol            \* PHYSICAL_TOLERANCE

\* BatteryConfig.__post_init__.
ValidConfig ==
    /\ Capacity \in Nat \ {0}
    /\ MaxCharge \in Nat /\ MaxDischarge \in Nat
    /\ ChargeDen \in Nat /\ ChargeNum \in 1..ChargeDen
    /\ DischargeDen \in Nat /\ DischargeNum \in 1..DischargeDen
    /\ InitialSoc \in 0..Capacity /\ TerminalSoc \in 0..Capacity

ASSUME BatteryAssumption == ValidConfig /\ Tol \in Nat

\* Energy in the cells, times a common denominator: of a level, of a charge and
\* of a discharge, both measured at the grid.
Scale == ChargeDen * DischargeNum
Gain(charge) == ChargeNum * DischargeNum * charge
Loss(discharge) == ChargeDen * DischargeDen * discharge

Within(x, bound) == -bound <= x /\ x <= bound

ValidSoc(soc) == -Tol <= soc /\ soc <= Capacity + Tol

\* Power limits; the mode excludes charging and discharging in one hour.
ValidPower(charge, discharge, mode) ==
    /\ mode \in {0, 1}
    /\ -Tol <= charge /\ charge <= MaxCharge * mode + Tol
    /\ -Tol <= discharge /\ discharge <= MaxDischarge * (1 - mode) + Tol

\* Mutant: the losses of discharging are forgotten.
ReconcilesLossless(soc, charge, discharge, next) ==
    Within(Scale * soc + Gain(charge) - Scale * discharge - Scale * next, Scale * Tol)

\* The state of charge follows from the hour's flows.
Reconciles(soc, charge, discharge, next) ==
    Within(Scale * soc + Gain(charge) - Loss(discharge) - Scale * next, Scale * Tol)
=============================================================================
