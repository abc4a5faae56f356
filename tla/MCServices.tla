----------------------------- MODULE MCServices -----------------------------
(***************************************************************************)
(* The vault and the world share no state but run in the same processes:   *)
(* each is checked by itself, in one run.  A behaviour is one of the vault *)
(* or one of the world, chosen at the start, while the other one rests.    *)
(***************************************************************************)
EXTENDS Vault, World, TLC

CONSTANT Under   (* the components that are checked                         *)

VARIABLE which

ServicesInit == which \in Under /\ Init /\ WorldInit

VaultSteps == which = "vault" /\ Next /\ UNCHANGED <<which, worldVars>>
WorldSteps == which = "world" /\ WorldNext /\ UNCHANGED <<which, vars>>

ServicesNext == VaultSteps \/ WorldSteps

ServicesSpec == ServicesInit /\ [][ServicesNext]_<<which, vars, worldVars>>

Symmetric == Permutations(Procs) \cup Permutations(Creds)
=============================================================================
