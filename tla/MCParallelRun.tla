--------------------------- MODULE MCParallelRun ---------------------------
(***************************************************************************)
(* Directories in which a flag is left empty behind a row that set one, in *)
(* the same file and in the next, with rows that do not parse and files    *)
(* that are empty or do not open; every query of the rows they give; and   *)
(* every file of a few lines, blank or not.                                *)
(***************************************************************************)
EXTENDS ParallelRun

r(ok, flag) == [ok |-> ok, flag |-> flag]
File(rows) == [opens |-> TRUE, rows |-> rows]
Shut == [opens |-> FALSE, rows |-> <<r(TRUE, "Y")>>]

MCInputs ==
    { [engine |-> "phase2",
       files |-> <<File(<<r(TRUE, "Y"), r(FALSE, "")>>), Shut,
                   File(<<r(TRUE, ""), r(TRUE, "N"), r(TRUE, "")>>)>>],
      [engine |-> "phase3",
       files |-> <<File(<<r(TRUE, "N"), r(FALSE, "Y"), r(TRUE, "")>>), File(<<>>),
                   File(<<r(TRUE, ""), r(TRUE, "Y"), r(TRUE, "")>>)>>],
      [engine |-> "stream",
       files |-> <<File(<<r(TRUE, "Y"), r(FALSE, "Y")>>), Shut,
                   File(<<r(TRUE, ""), r(TRUE, "Y"), r(FALSE, "")>>)>>] }
=============================================================================
