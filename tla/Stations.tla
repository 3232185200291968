------------------------------- MODULE Stations -------------------------------
(***************************************************************************)
(* One dispatched session under inspection (core/stations.py and           *)
(* commands/dispatch_stations.py): the records it asks to have read, the   *)
(* stops written for it and how each is answered, the Stop and PreToolUse  *)
(* hooks, the pass that launched it, which inspects and may reap, and      *)
(* other inspectors, which only inspect.                                   *)
(***************************************************************************)
EXTENDS Integers, Sequences, FiniteSetsExt

CONSTANTS
  Inspector,    \* the processes that inspect
  Holder,       \* the one that holds the lease and waits on the session
  Nobody,       \* the stations lock is free
  MaxOrders,    \* bound: stops an operator writes
  MaxAsked      \* bound: records the session asks to have read

ASSUME StationsAssumption ==
  Holder \in Inspector /\ Nobody \notin Inspector /\ MaxOrders \in Nat /\ MaxAsked \in Nat

VARIABLES
  session,   \* at work, waiting for a first article, in the Stop hook, over
  hung,      \* nothing will come from it any more
  quiet,     \* its log has not grown for the reap interval
  refusal,   \* its end was refused and it has called no tool since
  spent,     \* its tokens are over the ceiling
  stops,     \* the stops written since the launch, in order
  orders,    \* how many of them an operator wrote
  asked,     \* its parts and first articles: may be read, verdicts, passed
  lock,      \* who has the flock on stations.lock
  doing,     \* per inspector: where it is
  seen,      \* per inspector: what it read when it began
  calm       \* the log was quiet when the holder began, and has not grown since

sessionVars == <<session, hung, refusal>>
inspectVars == <<lock, doing, seen>>
stationVars == <<sessionVars, quiet, spent, stops, orders, asked, inspectVars, calm>>

NothingSeen == [todo |-> {}, spend |-> FALSE, due |-> 0]

StationsInit ==
  /\ session = "work" /\ hung = FALSE /\ quiet = FALSE /\ refusal = FALSE
  /\ spent = FALSE /\ stops = <<>> /\ orders = 0 /\ asked = <<>>
  /\ lock = Nobody /\ doing = [i \in Inspector |-> "idle"]
  /\ seen = [i \in Inspector |-> NothingSeen] /\ calm = FALSE

StopOf(kind, reason) == [kind |-> kind, reason |-> reason, due |-> FALSE, answered |-> FALSE]

First(set) == IF set = {} THEN 0 ELSE Min(set)

Unanswered == {k \in DOMAIN stops : ~stops[k].answered}

UnansweredHard == {k \in Unanswered : stops[k].kind = "hard"}

PendingStop == First(Unanswered)

\* Mutant: the first pending stop is found, then asked whether it is hard.
PendingHardAfter == IF PendingStop \in UnansweredHard THEN PendingStop ELSE 0

PendingHardStop == First(UnansweredHard)

(* andon_halted or andon_reaped for stop k, if there is one. *)
Answer(all, k) ==
  IF k = 0 THEN all ELSE [all EXCEPT ![k].answered = TRUE, ![k].due = FALSE]

-----------------------------------------------------------------------------
(* The session.  Each of its commands is a tool call, which the hook lets  *)
(* through when no hard stop is pending.                                   *)

LogGrows == quiet' = FALSE /\ calm' = FALSE

Calls == session = "work" /\ ~hung /\ LogGrows

(* tool_gate: the call is refused and the session has halted. *)
Denied ==
  /\ Calls /\ PendingHardStop # 0
  /\ stops' = Answer(stops, PendingHardStop)
  /\ UNCHANGED <<sessionVars, spent, orders, asked, inspectVars>>

Call ==
  /\ Calls /\ PendingHardStop = 0
  /\ refusal' = FALSE /\ spent' \in {spent, TRUE}
  /\ UNCHANGED <<session, hung, stops, orders, asked, inspectVars>>

(* boundary. *)
Boundary ==
  /\ Calls /\ PendingHardStop = 0
  /\ stops' = Answer(stops, PendingStop) /\ refusal' = FALSE
  /\ UNCHANGED <<session, hung, spent, orders, asked, inspectVars>>

(* part-complete records the part and halts if a stop is written; a part   *)
(* may be read once a Stop has run its checks.                             *)
PartComplete ==
  /\ Calls /\ PendingHardStop = 0 /\ Len(asked) < MaxAsked
  /\ asked' = Append(asked, [of |-> "part", ready |-> FALSE, verdicts |-> 0, passed |-> FALSE])
  /\ stops' = Answer(stops, PendingStop) /\ refusal' = FALSE
  /\ UNCHANGED <<session, hung, spent, orders, inspectVars>>

(* first-article, up to its wait. *)
FirstArticle ==
  /\ Calls /\ PendingHardStop = 0 /\ Len(asked) < MaxAsked
  /\ asked' = Append(asked, [of |-> "article", ready |-> TRUE, verdicts |-> 0, passed |-> FALSE])
  /\ session' = "wait" /\ refusal' = FALSE
  /\ UNCHANGED <<hung, spent, stops, orders, inspectVars>>

Waits == session = "wait" /\ ~hung /\ session' = "work" /\ LogGrows

(* A poll that finds the verdict, or else a stop. *)
Poll ==
  /\ Waits
  /\ \/ asked[Len(asked)].passed /\ UNCHANGED stops
     \/ ~asked[Len(asked)].passed /\ PendingStop # 0 /\ stops' = Answer(stops, PendingStop)
  /\ UNCHANGED <<hung, refusal, spent, orders, asked, inspectVars>>

(* Nothing within first_article_polls: its huddle answers the record, and  *)
(* it halts at the first stop pending, which need not be its own.          *)
WaitOver ==
  /\ Waits
  /\ asked' = [asked EXCEPT ![Len(asked)].ready = FALSE]
  /\ stops' = Answer(Append(stops, StopOf("line", "unanswered")),
                     IF PendingStop = 0 THEN Len(stops) + 1 ELSE PendingStop)
  /\ UNCHANGED <<hung, refusal, spent, orders, inspectVars>>

(* The Stop hook begins; the CLI waits for it. *)
TryEnd ==
  /\ session = "work" /\ ~hung /\ session' = "gate"
  /\ UNCHANGED <<hung, refusal, quiet, spent, stops, orders, asked, inspectVars, calm>>

Parts == {k \in DOMAIN asked : asked[k].of = "part"}

(* stop_gate.  A check fails only where there is a declared part, and its  *)
(* output repeats when nothing was done since the last refused Stop.  At   *)
(* the ceiling the hook writes the hard stop and its answer.               *)
StopGate ==
  /\ session = "gate" /\ ~hung
  /\ asked' = [k \in DOMAIN asked |-> [asked[k] EXCEPT !.ready = @ \/ k \in Parts]]
  /\ \/ session' = "over" /\ UNCHANGED <<refusal, stops>>
     \/ /\ Parts # {} /\ spent /\ session' = "over"
        /\ stops' = Append(stops, [StopOf("hard", "spend") EXCEPT !.answered = TRUE])
        /\ UNCHANGED refusal
     \/ /\ Parts # {} /\ ~spent /\ ~refusal /\ session' = "work"
        /\ refusal' = TRUE /\ UNCHANGED stops
  /\ UNCHANGED <<hung, quiet, spent, orders, inspectVars, calm>>

Hang ==
  /\ session # "over" /\ ~hung /\ hung' = TRUE
  /\ UNCHANGED <<session, refusal, quiet, spent, stops, orders, asked, inspectVars, calm>>

(* It exits by itself, or its hook's time is up. *)
SessionExits ==
  /\ session # "over" /\ session' = "over"
  /\ UNCHANGED <<hung, refusal, quiet, spent, stops, orders, asked, inspectVars, calm>>

SessionStep ==
  Denied \/ Call \/ Boundary \/ PartComplete \/ FirstArticle \/ Poll \/ WaitOver \/ TryEnd \/ StopGate
-----------------------------------------------------------------------------
(* The operator and the clock. *)

OrderStop(kind) ==
  /\ session # "over" /\ orders < MaxOrders /\ orders' = orders + 1
  /\ stops' = Append(stops, StopOf(kind, "operator"))
  /\ UNCHANGED <<sessionVars, quiet, spent, asked, inspectVars, calm>>

(* The reap interval has passed since a hard stop was written, the first   *)
(* one first.                                                              *)
Elapse ==
  /\ session # "over"
  /\ \E k \in UnansweredHard :
       /\ ~stops[k].due /\ \A j \in UnansweredHard : j < k => stops[j].due
       /\ stops' = [stops EXCEPT ![k].due = TRUE]
  /\ UNCHANGED <<sessionVars, quiet, spent, orders, asked, inspectVars, calm>>

FallSilent ==
  /\ session # "over" /\ ~quiet /\ quiet' = TRUE
  /\ UNCHANGED <<sessionVars, spent, stops, orders, asked, inspectVars, calm>>
-----------------------------------------------------------------------------
(* An inspection. *)

\* Mutant: the flock is not asked for.
NoFlock == TRUE

FlockFreeNow == lock = Nobody

(* inspect_in_flight takes the lock or skips, then reads the log. *)
StartInspection(i) ==
  /\ doing[i] = "idle" /\ FlockFreeNow /\ session # "over"
  /\ lock' = i /\ doing' = [doing EXCEPT ![i] = "reading"]
  /\ seen' = [seen EXCEPT ![i] =
       [todo  |-> {k \in DOMAIN asked : asked[k].ready /\ asked[k].verdicts = 0},
        spend |-> \E k \in DOMAIN stops : stops[k].kind = "hard" /\ stops[k].reason = "spend",
        due   |-> First({k \in UnansweredHard : i = Holder /\ stops[k].due})]]
  /\ calm' = IF i = Holder THEN quiet ELSE calm
  /\ UNCHANGED <<sessionVars, quiet, spent, stops, orders, asked>>

(* The milestone of a part, or the verdict on a first article: it passes,  *)
(* its check cannot run (a huddle), or the line is stopped.                *)
Read(i) ==
  /\ doing[i] = "reading"
  /\ \E k \in seen[i].todo, verdict \in {"pass", "huddle", "line"} :
       /\ asked[k].of = "part" => verdict = "huddle"
       /\ seen' = [seen EXCEPT ![i].todo = @ \ {k}]
       /\ asked' = [asked EXCEPT ![k].verdicts = @ + 1, ![k].passed = @ \/ verdict = "pass"]
       /\ stops' = IF verdict = "line" THEN Append(stops, StopOf("line", "article")) ELSE stops
  /\ UNCHANGED <<sessionVars, quiet, spent, orders, lock, doing, calm>>

(* The ceiling, once per launch, and whether a stop is due for the reap.   *)
FinishInspection(i) ==
  /\ doing[i] = "reading" /\ seen[i].todo = {}
  /\ stops' = IF spent /\ ~seen[i].spend THEN Append(stops, StopOf("hard", "spend")) ELSE stops
  /\ doing' = [doing EXCEPT ![i] =
       IF seen[i].due # 0 /\ calm THEN "reaping" ELSE "idle"]
  /\ seen' = [seen EXCEPT ![i] = IF doing'[i] = "idle" THEN NothingSeen ELSE @]
  /\ lock' = Nobody /\ calm' = (calm /\ i # Holder)
  /\ UNCHANGED <<sessionVars, quiet, spent, orders, asked>>

(* _reap_group, then record_reap; the session may have halted meanwhile. *)
Reap ==
  /\ doing[Holder] = "reaping"
  /\ session' = "over" /\ stops' = Answer(stops, seen[Holder].due)
  /\ doing' = [doing EXCEPT ![Holder] = "idle"]
  /\ seen' = [seen EXCEPT ![Holder] = NothingSeen]
  /\ UNCHANGED <<hung, refusal, quiet, spent, orders, asked, lock, calm>>

StationsNext ==
  \/ SessionStep \/ Hang \/ SessionExits \/ Elapse \/ FallSilent \/ Reap
  \/ \E kind \in {"andon", "hard"} : OrderStop(kind)
  \/ \E i \in Inspector : StartInspection(i) \/ Read(i) \/ FinishInspection(i)

(* A session that does not hang goes on, and one that does falls silent;   *)
(* the holder tries at every tick, other inspections end, time passes.     *)
StationsFairness ==
  /\ WF_stationVars(SessionStep)
  /\ WF_stationVars(hung /\ FallSilent) /\ WF_stationVars(Elapse) /\ WF_stationVars(Reap)
  /\ SF_stationVars(StartInspection(Holder))
  /\ \A i \in Inspector : WF_stationVars(Read(i) \/ FinishInspection(i))

StationsSpec == StationsInit /\ [][StationsNext]_stationVars /\ StationsFairness

-----------------------------------------------------------------------------
Stop == [kind : {"line", "andon", "hard"}, reason : {"unanswered", "article", "operator", "spend"},
         due : BOOLEAN, answered : BOOLEAN]

Ask == [of : {"part", "article"}, ready : BOOLEAN, verdicts : Nat, passed : BOOLEAN]

StationsTypeOK ==
  /\ session \in {"work", "wait", "gate", "over"}
  /\ hung \in BOOLEAN /\ quiet \in BOOLEAN /\ refusal \in BOOLEAN
  /\ spent \in BOOLEAN /\ calm \in BOOLEAN
  /\ stops \in Seq(Stop) /\ orders \in 0..MaxOrders /\ asked \in Seq(Ask)
  /\ (session = "wait" => asked # <<>>)
  /\ lock \in Inspector \cup {Nobody}
  /\ doing \in [Inspector -> {"idle", "reading", "reaping"}]
  /\ seen \in [Inspector -> [todo : SUBSET Nat, spend : BOOLEAN, due : Nat]]

(* Two inspectors never answer one record twice (core/stations.py:inspect, *)
(* which promises it by the ids it finds in the log it read).              *)
AnsweredOnce == \A k \in DOMAIN asked : asked[k].verdicts <= 1

(* A hard stop does not stay unanswered: the session takes it at a tool    *)
(* call, is reaped, or is over by itself, whatever other stops stand       *)
(* before it and however its log grows (the reap waits for a silent log).  *)
HardStopAnswered == UnansweredHard # {} ~> UnansweredHard = {} \/ session = "over"
=============================================================================
