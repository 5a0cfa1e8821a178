------------------------- MODULE ObservationRegister --------------------------
(***************************************************************************)
(* What the route-health store promises to those who report to it and to   *)
(* those who read it: per route of a managed host one register of the last *)
(* success and the last failure.  It takes whole observations, one at a    *)
(* time, each only if it is newer than all it has for that route; so the   *)
(* result does not depend on the order in which late reports arrive.  A    *)
(* power loss may bring back an earlier whole register of those not yet    *)
(* settled.  An unreadable register is left as it is.                      *)
(***************************************************************************)
EXTENDS RouteHealth

CONSTANT Observations    \* the observations that may be reported

VARIABLES register,   \* readable: can it be read; rows: what it says
          settled     \* the registers a power loss may leave

registerVars == <<register, settled>>

IsRegister(r) == r \in [readable : BOOLEAN, rows : {r.rows}] /\ IsHealth(r.rows)

-------------------------------------------------------------------------------
Take ==
    /\ register.readable
    /\ \E o \in Observations :
          /\ o.at > NewestAt(HealthOf(register.rows, RouteKey(o)))
          /\ register' = [register EXCEPT !.rows = Observe(@, RouteKey(o), o.status, o.at)]
          /\ settled' = settled \cup {register'}

\* The directory entry reaches the disk.
Settle == settled' = {register} /\ UNCHANGED register

PowerLoss == \E r \in settled : register' = r /\ settled' = {r}

-------------------------------------------------------------------------------
RegisterInit ==
    /\ IsRegister(register)
    /\ settled = {register}

RegisterNext == Take \/ Settle \/ PowerLoss

RegisterSpec == RegisterInit /\ [][RegisterNext]_registerVars

===============================================================================
