----------------------------- MODULE MCAdmission -----------------------------
(* Small instances of Admission. *)
EXTENDS Admission, TLC

\* The names play the same part.
Symmetry == Permutations(Names)

Plain == [count |-> 1, mirrors |-> "no", standby |-> "no", antiAffinity |-> "no",
          storage |-> "5G", fixed |-> "x"]

\* The specifications the rules tell apart: a user goes from one to another by a
\* creation over the claims of the last, or by an update.
MCSpecs ==
    {Plain, [Plain EXCEPT !.count = 2], [Plain EXCEPT !.count = 3],
     [Plain EXCEPT !.standby = "yes"], [Plain EXCEPT !.standby = "Yes"],
     [Plain EXCEPT !.mirrors = "yes"], [Plain EXCEPT !.mirrors = "Yes"],
     [Plain EXCEPT !.storage = "6G"], [Plain EXCEPT !.fixed = "y"]}
=============================================================================
