------------------------------- MODULE MCSync -------------------------------
(* BlockSync, whose chain is bounded, and the race of CatchUp, whose chain is not, in one
   run, of which one moves. *)
EXTENDS BlockSync, CatchUp

MCInit == Init /\ RoundsInit

SyncMoves == RoundsInit
RaceMoves == Init

MCNext ==
    \/ SyncMoves /\ Next /\ UNCHANGED allRaceVars
    \/ RaceMoves /\ RoundsNext /\ UNCHANGED vars
    \/ RaceOver /\ UNCHANGED <<vars, allRaceVars>>

MCFairness ==
    /\ WF_vars(SyncMoves /\ Stream) /\ WF_vars(SyncMoves /\ Main)
    /\ WF_vars(SyncMoves /\ Updater) /\ WF_vars(SyncMoves /\ Gas)
    /\ WF_allRaceVars(RaceMoves /\ RoundStart)
    /\ WF_allRaceVars(RaceMoves /\ (RoundAsked \/ RoundTrace))

MCSpec == MCInit /\ [][MCNext]_<<vars, allRaceVars>> /\ MCFairness

=============================================================================
