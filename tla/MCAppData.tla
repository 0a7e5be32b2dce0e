------------------------------- MODULE MCAppData -------------------------------
(* A small instance of AppData for TLC: two records, single-record calls and
   batches, two of which touch the records in opposite orders. *)
EXTENDS AppData

CONSTANTS r1, r2, d1, d2

Create(r, d) == [kind |-> "create", record |-> r, data |-> d, status |-> Keep]
Update(r, d, s) == [kind |-> "update", record |-> r, data |-> d, status |-> s]
Archive(r) == [kind |-> "archive", record |-> r, data |-> Keep, status |-> Keep]
Delete(r) == [kind |-> "delete", record |-> r, data |-> Keep, status |-> Keep]

(* The calls clients make in this instance. *)
Calls ==
  { <<Create(r1, d1)>>,
    <<Create(r2, d1), Create(r1, d2)>>,
    <<Update(r1, d2, Keep)>>,
    <<Update(r1, Keep, "disabled")>>,
    <<Archive(r1)>>,
    <<Delete(r1)>>,
    <<Update(r1, d1, Keep), Update(r2, d2, Keep)>>,
    <<Update(r2, d2, Keep), Delete(r1)>>,
    <<Update(r1, d2, Keep), Archive(r1)>> }
=============================================================================
