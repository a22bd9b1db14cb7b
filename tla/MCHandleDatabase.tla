--------------------------- MODULE MCHandleDatabase ---------------------------
(* Small instances of the handle and protocol databases in one run: of the  *)
(* database of the boot services with registrations and no opens, with      *)
(* opens on the interfaces of one handle, and with lookups; and of the SMM  *)
(* database.  They share the constants; each keeps what is in use at a time *)
(* within its own bounds.                                                   *)
EXTENDS SmmDatabase, TLC

VARIABLE instance

Symmetry == Permutations(Handles) \cup Permutations(Prots) \cup
            Permutations(Registrations) \cup Permutations(Events)

AccessModes == { {GetProtocol}, {ByDriver}, {Exclusive}, {ByDriver, Exclusive} }

(* How many handles, interfaces and registrations are in use, how many      *)
(* different opens there are, and in which modes.                           *)
Within(nHandles, nProts, nRegistrations, nOpens, modes) ==
  /\ Cardinality(handles) <= nHandles
  /\ Cardinality(Allocated) <= nProts
  /\ Cardinality(Registered) <= nRegistrations
  /\ Cardinality(UNION { openList[i] : i \in Allocated }) <= nOpens
  /\ \A i \in Allocated :
       \A o \in openList[i] :
         o.agent \in handles /\ o.controller \in handles \cup {NULL} /\ o.attributes \in modes

MCInit == SmmInit /\ instance \in {"notify", "opens", "lookups", "smm"}

BootNext ==
  /\ \/ instance = "notify" /\ Changes /\ Within(2, 3, 2, 0, {})'
     \/ instance = "opens" /\ Changes /\ Within(1, 2, 0, 3, AccessModes)'
     \/ /\ instance = "lookups" /\ (Lookups \/ Changes)
        /\ Within(2, 2, 1, 0, {})' \/ Within(2, 2, 0, 1, {{GetProtocol}})'
  /\ UNCHANGED smmvars

(* The bound on calls is reached and every function has returned.           *)
SmmFinished ==
  calls = MaxCalls /\ running = << >> /\ UNCHANGED << dbvars, locatevars, smmvars >>

MCNext ==
  /\ UNCHANGED instance
  /\ BootNext \/ (instance = "smm" /\ (SmmNext \/ SmmFinished))

MCSpec == MCInit /\ [][MCNext]_<< dbvars, locatevars, smmvars, instance >>

(* The SMM database is consistent whatever its notification functions do.   *)
SmmInstanceConsistent == instance = "smm" => SmmConsistent
================================================================================
