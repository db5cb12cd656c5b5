---------------------------- MODULE MCLedgerAudit ----------------------------
(***************************************************************************)
(* Model-checking instance of LedgerAudit: work units and commands are     *)
(* interchangeable.                                                        *)
(***************************************************************************)
EXTENDS LedgerAudit, TLC

IdSymmetry == Permutations(WorkUnits) \cup Permutations(Commands)

\* Bound: a second release is looked at apart from refused results and from
\* entries with an account, on which the routebook has no bearing.
ReleaseBound ==
    \/ routebook = 1
    \/ /\ \A i \in DOMAIN reports : reports[i] # "refuse"
       /\ \A id \in DOMAIN entries : id.account = None

=============================================================================
