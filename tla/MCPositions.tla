---------------------------- MODULE MCPositions ----------------------------
(***************************************************************************)
(* Two ways to a wallet's positions, one at a time: the queries of the     *)
(* analytics service, and the enumeration of a full exit at a block of the *)
(* indexer.  They share nothing, so a behaviour is one or the other.       *)
(***************************************************************************)
EXTENDS FullExit, WalletPositions

VARIABLE machine

(* "A" and "a" are two blocks of one number.                               *)
NumberMC == [h \in Heads |-> IF h = "b" THEN 2 ELSE 1]

MCInit ==
  /\ machine \in {"queries", "exit"}
  /\ Init /\ PositionsInit
  /\ machine = "queries" => HeadHeld = Bins
  /\ machine = "exit" => head = "a"

MCNext ==
  \/ machine = "queries" /\ PositionsNext /\ UNCHANGED <<machine, vars>>
  \/ machine = "exit" /\ Next /\ UNCHANGED <<machine, positionsVars>>

(* The fairness of FullExit, of the behaviours that are an exit.           *)
Exiting(A) == machine = "exit" /\ A

MCSpec ==
  /\ MCInit /\ [][MCNext]_<<machine, vars, positionsVars>>
  /\ WF_vars(Exiting(Presses)) /\ WF_vars(Exiting(Continues)) /\ WF_vars(Exiting(Confirmed))
  /\ WF_vars(Exiting(MinesEmpty)) /\ WF_vars(Exiting(Indexes))

(* ExitCompletes, of the behaviours that are an exit.                      *)
ResumedExitCompletes == <>(machine = "queries") \/ ExitCompletes
=============================================================================
