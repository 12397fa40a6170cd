------------------------------- MODULE Doctor -------------------------------
(***************************************************************************)
(* `myco doctor` (cli.py) beside the processes that initialise the         *)
(* repository, with load_spores of core/spore_loader.py, which `myco hunt` *)
(* and `myco spores` call as well.                                         *)
(*                                                                         *)
(* The spores are listed first and read one by one.  Nothing catches what  *)
(* a bad one raises; an invalid configuration is caught and reported.      *)
(***************************************************************************)
EXTENDS Layout, FiniteSets

CONSTANT
    Spores      \* the files of the layout that are spores

ASSUME DoctorAssumption == Spores \subseteq File

VARIABLE
    doctor      \* [pc, todo, since]: the next step, the spores listed and not
                \* read yet, and the owner's interventions when they were listed

doctorVars == <<vars, doctor>>

Away == [pc |-> "idle", todo |-> {}, since |-> 0]

DoctorInit == Init /\ doctor = Away

\* is_initialized, and the listing of .myco/spores.
List ==
    /\ doctor.pc = "idle"
    /\ dir
    /\ doctor' = [pc |-> "read", todo |-> Spores \cap Present, since |-> edits]
    /\ UNCHANGED vars

\* load_spore_file succeeds ...
ReadSpore(f) ==
    /\ doctor.pc = "read" /\ f \in doctor.todo
    /\ disk[f] # "absent"
    /\ doctor' = [doctor EXCEPT !.todo = @ \ {f}]
    /\ UNCHANGED vars

\* ... or the file is gone, or is no spore: cut short it lacks what a spore must
\* have, and the owner may have written anything.
Fail(f) ==
    /\ doctor.pc = "read" /\ f \in doctor.todo
    /\ disk[f] # "default"
    /\ doctor' = [doctor EXCEPT !.pc = "failed"]
    /\ UNCHANGED vars

\* The table is printed, whatever the configuration is, or the process is gone.
End ==
    /\ doctor.pc = "failed" \/ (doctor.pc = "read" /\ doctor.todo = {})
    /\ doctor' = Away
    /\ UNCHANGED vars

DoctorNext ==
    \/ Next /\ UNCHANGED doctor
    \/ List \/ (\E f \in Spores : ReadSpore(f) \/ Fail(f)) \/ End

DoctorSpec == DoctorInit /\ [][DoctorNext]_doctorVars

(***************************************************************************)
(* Properties.                                                             *)
(***************************************************************************)
\* `myco doctor` gives its answer unless it meets a spore that a process died
\* upon or is writing at that moment, or that the owner wrote or has removed
\* since it was listed: an init that ended, or that merely runs beside, never
\* takes it down (spore_loader.py:20-38, cli.py:546-552).  A file is cut short
\* only while a process writes it, or when one died upon it.
DoctorAnswers ==
    [][ (doctor.pc = "read" /\ doctor'.pc = "failed") =>
        \E f \in doctor.todo :
            \/ disk[f] = "cut" /\ (f \in torn \/ \E s \in Session : pc[s] = "fill" /\ Order[at[s]] = f)
            \/ disk[f] = "own"
            \/ disk[f] = "absent" /\ edits > doctor.since ]_doctorVars
=============================================================================
