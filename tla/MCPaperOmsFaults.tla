-------------------------- MODULE MCPaperOmsFaults --------------------------
(* PaperOms with every fault, and whether the process was ever stopped.     *)
EXTENDS MCPaperOms

VARIABLE stopped

FaultsInit == Init /\ stopped = FALSE

(* A crash, or a failed append that only a restart ends.                    *)
Stop == Restart \/ (healthy /\ ~healthy')
FaultsNext == Next /\ stopped' = (stopped \/ Stop)

FaultsSpec ==
    FaultsInit /\ [][FaultsNext]_<<vars, stopped>>
        /\ ServiceProgress /\ OperatorDiligence /\ VenueProgress

(* Until the process is stopped, whatever else fails, an order handed to    *)
(* the broker does not stay PENDING_SUBMIT for good: submit_intent records  *)
(* the answer, the refusal or UNKNOWN, and what it left open is settled by  *)
(* the venue (a stop in between is the finding of crashed_submit).          *)
SubmissionResolvesUnstopped ==
    \A o \in Orders :
        (StateOf(o) = "PENDING_SUBMIT" /\ ~stopped) ~> (Resolved(o) \/ stopped)
=============================================================================
