------------------------ MODULE MCDocumentNumbering ------------------------
(* A small instance of DocumentNumbering for TLC. *)
EXTENDS DocumentNumbering, TLC

\* A year of two months, so that three months cross a year boundary.
AllFrequencies == {"NEVER", "YEARLY", "MONTHLY"}

\* Sessions are interchangeable.
Symmetry == Permutations(Workers)
=============================================================================
