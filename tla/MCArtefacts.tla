---------------------------- MODULE MCArtefacts ----------------------------
(* One administrator next to the writer and the purge, two files, either    *)
(* ledger, one failing call and one crash.                                  *)
EXTENDS Artefacts

MCBackends == {"memory", "postgres"}
=============================================================================
