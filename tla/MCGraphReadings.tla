-------------------------- MODULE MCGraphReadings --------------------------
(***************************************************************************)
(* Five readings of the graph and the log that share no state, side by     *)
(* side: what the precedence commands answer, the search for cycles among  *)
(* the pairs as they were written, which tasks a parallel pass launches,   *)
(* how staleness spreads, and what the close of a session looks at.  A     *)
(* behaviour runs one of them; the others stay as they begin, or at rest.  *)
(***************************************************************************)
EXTENDS PrecedenceView, CycleSearch, LaunchQueue, Staleness, Closeout

VARIABLE part

allVars == <<part, vars, searchVars, launchVars, staleVars, closeVars>>

ViewRest == pairs = {} /\ external = {} /\ states \in [Task -> OpenStates]
            /\ order = <<>> /\ ready = <<>> /\ listed = FALSE

SearchRest ==
  /\ given = <<>> /\ loops = {} /\ unvisited = {} /\ path = <<>> /\ at = <<>>
  /\ cycles = {} /\ pc = "done"

StaleRest ==
  /\ cites = {} /\ status = [a \in Artifact |-> "rejected"] /\ begun = TRUE
  /\ supersededBy = [a \in Artifact |-> {}] /\ withdrawn = {}
  /\ frames = <<>> /\ walked = {} /\ disturbed = {} /\ cut = FALSE /\ moves = 0

AllInit ==
  /\ CloseInit /\ LaunchInit
  /\ \/ part = "view" /\ Init /\ SearchRest /\ StaleRest
     \/ part = "search" /\ ViewRest /\ SearchInit /\ StaleRest
     \/ part = "stale" /\ ViewRest /\ SearchRest /\ StaleInit
     \/ part \in {"launch", "close"} /\ ViewRest /\ SearchRest /\ StaleRest

AllNext ==
  /\ UNCHANGED part
  /\ \/ /\ part = "view" /\ Next
        /\ UNCHANGED <<searchVars, launchVars, staleVars, closeVars>>
     \/ /\ part = "search" /\ SearchNext
        /\ UNCHANGED <<vars, launchVars, staleVars, closeVars>>
     \/ /\ part = "launch" /\ LaunchNext
        /\ UNCHANGED <<vars, searchVars, staleVars, closeVars>>
     \/ /\ part = "stale" /\ StaleNext
        /\ UNCHANGED <<vars, searchVars, launchVars, closeVars>>
     \/ /\ part = "close" /\ CloseNext
        /\ UNCHANGED <<vars, searchVars, launchVars, staleVars>>

(* At rest, nothing the fairness names can be done. *)
AllSpec ==
  /\ AllInit /\ [][AllNext]_allVars
  /\ WF_searchVars(SearchNext) /\ LaunchFairness /\ StaleFairness
=============================================================================
