------------------------------ MODULE MCStorage ------------------------------
(* Model values for the run of Storage.                                     *)
EXTENDS Storage

CONSTANTS p1, d1, m1, m2, m3, i1

SmallQuotas == {2}
Together == {{p1}, {d1}, {i1}, {m1, m2, m3}}
=============================================================================
