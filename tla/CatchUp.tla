------------------------------- MODULE CatchUp -------------------------------
(***************************************************************************)
(* The race at start-up: the state updater traces the blocks up to the     *)
(* head it was told, asks for the head again, and so on until nothing is   *)
(* left (market_state.rs), while the node goes on mining and main spins on *)
(* caught_up (ignition.rs).                                                *)
(*                                                                         *)
(* The chain never stops here: block numbers are left out and only         *)
(* distances are kept, how far the head is ahead of what was written and   *)
(* how much of the round is left.  BlockSync, whose chain is bounded,      *)
(* implements the part of this module without history.                     *)
(***************************************************************************)
EXTENDS Naturals

CONSTANTS
    MaxLag,       \* bound: how far the head gets ahead of what was written
    RequestsFail   \* whether a request to the node may fail

ASSUME CatchUpAssumption == MaxLag \in Nat /\ RequestsFail \in BOOLEAN

VARIABLES
    raceMainPc, \* start_workers
    racePc,     \* state_updater, "live" once it has stored caught_up
    behind,     \* the head minus the last block written
    todo,       \* current_block minus the last block written: what is left of the round
    round,      \* history: the length of the last round asked for
    shrinks     \* history: whether it was shorter than the round before it

raceVars == <<raceMainPc, racePc, behind, todo>>
roundVars == <<round, shrinks>>
allRaceVars == <<raceVars, roundVars>>

RaceTypeOK ==
    /\ raceMainPc \in {"warmUp", "spin", "running"}
    /\ racePc \in {"unborn", "query", "test", "catchup", "live", "ended"}
    /\ behind \in 0..MaxLag
    /\ todo \in 0..behind
    /\ round \in 0..MaxLag
    /\ shrinks \in BOOLEAN

RaceInit ==
    /\ raceMainPc = "warmUp"
    /\ racePc = "unborn"
    /\ behind = 0
    /\ todo = 0

-----------------------------------------------------------------------------
\* The node is free to mine at any moment, and free not to.
RaceMineBlock ==
    /\ behind < MaxLag
    /\ behind' = behind + 1
    /\ UNCHANGED <<raceMainPc, racePc, todo>>

RaceSpawnUpdater ==
    /\ raceMainPc = "warmUp"
    /\ raceMainPc' = "spin"
    /\ racePc' = "query"
    /\ UNCHANGED <<behind, todo>>

RaceLeaveSpin ==
    /\ raceMainPc = "spin"
    /\ racePc = "live"
    /\ raceMainPc' = "running"
    /\ UNCHANGED <<racePc, behind, todo>>

RaceGetBlockNumber ==
    /\ racePc = "query"
    /\ racePc' = "test"
    /\ todo' = behind
    /\ UNCHANGED <<raceMainPc, behind>>

\* The mutants below are plausible slips in the operator that follows them; the
\* specification does not use them.

RaceBehind == todo > 0

MutantOneMore == TRUE
RaceInRange == todo > 0

MutantNoSignal == UNCHANGED racePc
RaceSignalCaughtUp == racePc' = "live"

RaceStartRound ==
    /\ racePc = "test"
    /\ RaceBehind
    /\ racePc' = "catchup"
    /\ UNCHANGED <<raceMainPc, behind, todo>>

RaceGoLive ==
    /\ racePc = "test"
    /\ ~RaceBehind
    /\ RaceSignalCaughtUp
    /\ UNCHANGED <<raceMainPc, behind, todo>>

RaceCatchUpBlock ==
    /\ racePc = "catchup"
    /\ RaceInRange
    /\ behind' = behind - 1
    /\ todo' = todo - 1
    /\ UNCHANGED <<raceMainPc, racePc>>

RaceRoundDone ==
    /\ racePc = "catchup"
    /\ ~RaceInRange
    /\ racePc' = "query"
    /\ UNCHANGED <<raceMainPc, behind, todo>>

\* get_block_number and debug_trace_block unwrap the answer: the task is gone,
\* and main spins for good.
RacePanics ==
    /\ RequestsFail
    /\ racePc = "query" \/ (racePc = "catchup" /\ RaceInRange)
    /\ racePc' = "ended"
    /\ todo' = 0
    /\ UNCHANGED <<raceMainPc, behind>>

RaceMain == RaceSpawnUpdater \/ RaceLeaveSpin
RaceLoop == RaceStartRound \/ RaceGoLive \/ RaceCatchUpBlock \/ RaceRoundDone

RaceNext == RaceMineBlock \/ RaceMain \/ RaceGetBlockNumber \/ RaceLoop \/ RacePanics
RaceSpec == RaceInit /\ [][RaceNext]_raceVars

-----------------------------------------------------------------------------
(* The same with the history of the rounds. *)

RoundsInit == RaceInit /\ round = 0 /\ shrinks = FALSE

RoundAsked  == RaceGetBlockNumber /\ round' = behind /\ shrinks' = (behind < round)
RoundSilent == (RaceMineBlock \/ RacePanics) /\ UNCHANGED roundVars
RoundStart  == RaceMain /\ UNCHANGED roundVars
RoundTrace  == RaceLoop /\ UNCHANGED roundVars

RoundsNext == RoundAsked \/ RoundSilent \/ RoundStart \/ RoundTrace

\* The updater and main are run again and again; the node owes no block and is
\* denied none.
RoundsSpec ==
    /\ RoundsInit /\ [][RoundsNext]_allRaceVars
    /\ WF_allRaceVars(RoundStart) /\ WF_allRaceVars(RoundAsked \/ RoundTrace)

\* The model stops where everybody has ended or is done, with the head at its bound.
RaceOver ==
    /\ behind = MaxLag
    /\ racePc \in {"live", "ended"} /\ raceMainPc # "warmUp"
    /\ raceMainPc = "spin" => racePc = "ended"

-----------------------------------------------------------------------------
(* Properties. *)

\* Start-up ends (main leaves the spin loop of ignition.rs:70) whenever, from some
\* round on, fewer blocks are mined during a round than the round traces, however
\* long the first rounds are; or the updater has died of a failed request.
StartsUp == <>[]shrinks => <>(raceMainPc = "running" \/ racePc = "ended")

=============================================================================
