-------------------------------- MODULE Scoring -------------------------------
(***************************************************************************)
(* ScoreStage.run: the judgments of the candidates by the provider, in     *)
(* rounds with one wall-time budget, the choice of the finalists, and the  *)
(* extra requests for them.  A cloud provider is reached by a thread per   *)
(* request, which is left behind when it does not end in time              *)
(* (ProviderAdapter._post_request); the local one is a llama-server that   *)
(* LocalRuntime starts, reuses, stops and, after a failure, starts again   *)
(* (ClipGaugeLocalAdapter).                                                *)
(*                                                                         *)
(* Until they are ranked the candidates differ in nothing the rounds look  *)
(* at but their order, so the rounds count them.  An answer found in the   *)
(* inference cache is not distinguished from one the provider gives.       *)
(***************************************************************************)
EXTENDS Attempt, FiniteSets

CONSTANTS
  MaxCandidates, \* bound: candidates with enough words
  RoundSize,     \* LOCAL_T1_ROUND_SIZE
  MinCalls,      \* LOCAL_T1_MIN_CALLS
  StrongMinimum, \* LOCAL_STRONG_MINIMUM
  MaxPosts,      \* the attempts of one cloud request
  FinalistLimit  \* the most finalists

ASSUME ScoringAssumption ==
  {MaxCandidates, RoundSize, MinCalls, StrongMinimum, MaxPosts, FinalistLimit}
    \subseteq Nat \ {0}

VARIABLES
  local,      \* whether the provider is ClipGauge Local
  prepared,   \* candidates with enough words
  round,      \* 1, refill 2, tier three 3
  todo,       \* those of the round that are not asked yet
  left,       \* those no round has taken yet
  asked, scored, strong,   \* t1_calls, len(scored), strong_count
  request,    \* the judgment's try, its posts, and whether it is an extra one
  expired,    \* the wall-time budget is used up
  aborted,    \* _scoring_request_aborted
  worker,     \* an abandoned request thread is alive
  server,     \* the llama-server of the handle: none, well, mute, hung, dead
  strays,     \* llama-servers no handle refers to
  kills,      \* history: how often the process was killed
  clips       \* the scored entries ranked: how many are recommended, which
              \* tell the same story, and the two choices

counts == <<round, todo, left, asked, scored, strong>>
cloudVars == <<aborted, worker>>
runtime == <<server, strays, kills>>
scoringVars == <<local, prepared, counts, request, expired, cloudVars, runtime,
                 clips>>

NoRequest == [try |-> 1, posts |-> 0, extra |-> FALSE, boots |-> "first"]
NoClips == [good |-> 0, same |-> {}, ranked |-> {}, finalists |-> {}]

NoScoring ==
  /\ local = FALSE /\ prepared = 0
  /\ round = 0 /\ todo = 0 /\ left = 0 /\ asked = 0 /\ scored = 0 /\ strong = 0
  /\ request = NoRequest /\ expired = FALSE /\ aborted = FALSE /\ worker = FALSE
  /\ server = "none" /\ strays = 0 /\ kills = 0 /\ clips = NoClips
\* The candidates of the job come in, for the provider of its settings.
BeginScoring ==
  /\ local' \in BOOLEAN /\ prepared' \in 0 .. MaxCandidates
  /\ UNCHANGED <<counts, request, expired, cloudVars, runtime, clips>>

\* The process and its client are gone when the stages after this one run.
ForgetScoring ==
  /\ local' = FALSE /\ prepared' = 0
  /\ round' = 0 /\ todo' = 0 /\ left' = 0 /\ asked' = 0 /\ scored' = 0 /\ strong' = 0
  /\ request' = NoRequest /\ expired' = FALSE /\ aborted' = FALSE /\ worker' = FALSE
  /\ server' = "none" /\ strays' = 0 /\ kills' = 0 /\ clips' = NoClips

Job == UNCHANGED <<local, prepared>>

-----------------------------------------------------------------------------
(***************************************************************************)
(* The rounds.  A cloud provider is asked about every candidate; the local *)
(* one about a diverse batch, then, while there were too few calls or too  *)
(* few strong clips, about a second batch and about all the others.        *)
(***************************************************************************)
StartScoring ==
  /\ at = "score" /\ pc = "start" /\ Goto("ask")
  /\ round' = 1
  /\ todo' = IF local THEN Least(RoundSize, prepared) ELSE prepared
  /\ left' = prepared - todo'
  /\ asked' = 0 /\ scored' = 0 /\ strong' = 0
  /\ request' = NoRequest /\ expired' = FALSE
  /\ aborted' = FALSE /\ worker' = FALSE /\ clips' = NoClips
  /\ UNCHANGED runtime /\ Job

\* The time budget ends at some moment of a request or between two.
Expire ==
  /\ Working("score") /\ pc # "start" /\ ~expired /\ expired' = TRUE
  /\ Trouble(pc)
  /\ UNCHANGED <<counts, request, cloudVars, runtime, clips>> /\ Job

Ask ==
  /\ at = "score" /\ pc = "ask" /\ todo > 0 /\ ~expired
  /\ Goto(IF local THEN "ensure" ELSE "post")
  /\ todo' = todo - 1 /\ asked' = asked + 1 /\ request' = NoRequest
  /\ UNCHANGED <<round, left, scored, strong, expired, cloudVars, runtime, clips>>
  /\ Job

RoundOver == at = "score" /\ pc = "ask" /\ (todo = 0 \/ expired)

\* A variant that takes either as enough.
WantsEither == asked < MinCalls /\ strong < StrongMinimum
WantsMore == asked < MinCalls \/ strong < StrongMinimum

NextRound ==
  /\ RoundOver /\ local /\ WantsMore /\ left > 0 /\ round < 3 /\ Goto("ask")
  /\ round' = round + 1
  /\ todo' = IF round = 1 THEN Least(RoundSize, left) ELSE left
  /\ left' = left - todo'
  /\ UNCHANGED <<asked, scored, strong, request, expired, cloudVars, runtime,
                 clips>> /\ Job

\* Without a scored candidate the stage fails; __del__ stops the runtime.
EndRounds ==
  /\ RoundOver /\ ~(local /\ WantsMore /\ left > 0 /\ round < 3)
  /\ IF scored = 0 /\ prepared > 0
       THEN Goto("stopped") /\ server' = "none"
       ELSE Goto("rank") /\ UNCHANGED server
  /\ UNCHANGED <<counts, request, expired, cloudVars, strays, kills, clips>> /\ Job

-----------------------------------------------------------------------------
(***************************************************************************)
(* The end of a judgment or of an extra request.                           *)
(***************************************************************************)
Answered ==
  /\ pc = "sent" /\ (local => server = "well")
  /\ Goto(IF request.extra THEN "extras" ELSE "ask")
  /\ IF request.extra THEN UNCHANGED <<scored, strong>>
     ELSE scored' = scored + 1 /\ strong' \in {strong, strong + 1}
  /\ UNCHANGED <<round, todo, left, asked, request, expired, cloudVars, runtime,
                 clips>> /\ Job

Unanswered == IF request.extra THEN "extras" ELSE "ask"

(***************************************************************************)
(* The cloud: request_timeout refuses a request after the deadline, after  *)
(* an abandoned one, and beside one that is still alive.                   *)
(***************************************************************************)
\* A variant that looks at the deadline alone.
MayPostInTime == ~expired
MayPost == ~expired /\ ~aborted /\ ~worker

Post ==
  /\ at = "score" /\ pc = "post" /\ (local \/ MayPost) /\ Goto("sent")
  /\ request' = IF local THEN request ELSE [request EXCEPT !.posts = @ + 1]
  /\ UNCHANGED <<counts, expired, cloudVars, runtime, clips>> /\ Job

Refused ==
  /\ at = "score" /\ pc = "post" /\ ~local /\ ~MayPost /\ Goto(Unanswered)
  /\ UNCHANGED <<counts, request, expired, cloudVars, runtime, clips>> /\ Job

\* A variant that counts from zero.
OffByOne == request.posts <= MaxPosts
TriesLeft == request.posts < MaxPosts

\* A status or a network error: what may be retried is, MaxPosts posts in all.
PostFails ==
  /\ pc = "sent" /\ ~local
  /\ \/ TriesLeft /\ MayPost /\ Trouble("post")
     \/ Trouble(Unanswered)
  /\ UNCHANGED <<counts, request, expired, cloudVars, runtime, clips>> /\ Job

(***************************************************************************)
(* No answer within the request's time, which ends with the budget: the    *)
(* thread is left alive and every later request of this client is refused. *)
(***************************************************************************)
Abandon ==
  /\ pc = "sent" /\ ~local
  /\ IF expired THEN Goto(Unanswered) ELSE Trouble(Unanswered)
  /\ aborted' = TRUE /\ worker' = TRUE
  /\ UNCHANGED <<counts, request, expired, runtime, clips>> /\ Job

WorkerEnds ==
  /\ worker /\ worker' = FALSE
  /\ UNCHANGED <<attempt, counts, request, expired, aborted, runtime, clips>> /\ Job

-----------------------------------------------------------------------------
(***************************************************************************)
(* ClipGauge Local.  A server that is mute answers its health check but no *)
(* request; a hung one answers nothing; both are alive.                    *)
(***************************************************************************)
Alive(s) == s \in {"well", "mute", "hung"}
Ready == server \in {"well", "mute"}

ServerFails ==
  /\ Working("score") /\ server = "well" /\ faults < MaxFaults
  /\ server' \in {"mute", "hung", "dead"} /\ faults' = faults + 1
  /\ UNCHANGED <<at, pc, counts, request, expired, cloudVars, strays, kills, clips>>
  /\ Job

\* A variant that starts a server beside one that does not answer.
ReusesReady == Ready
\* LocalRuntime.start: the process of the handle is reused while it lives.
Reuses == Alive(server)

\* start: a new process, which the handle knows only when it is ready.
Spawn(b) ==
  /\ Goto("boot") /\ request' = [request EXCEPT !.boots = b]
  /\ strays' = IF Alive(server) THEN strays + 1 ELSE strays
  /\ server' = "none"

Ensure ==
  /\ at = "score" /\ pc = "ensure"
  /\ IF Ready \/ Reuses THEN Goto("post") /\ UNCHANGED <<request, strays, server>>
     ELSE Spawn("first")
  /\ UNCHANGED <<counts, expired, cloudVars, kills, clips>> /\ Job

Booted ==
  /\ at = "score" /\ pc = "boot" /\ server' = "well"
  /\ Goto("post")
  /\ UNCHANGED <<counts, request, expired, cloudVars, strays, kills, clips>> /\ Job

\* What a failed judgment comes to: one recovery, then none.
LocalFailure == IF request.try = 1 THEN "recover" ELSE "ask"

\* It exits, its probe fails or its time is up: start stops it.
BootFails ==
  /\ at = "score" /\ pc = "boot"
  /\ Trouble(IF request.boots = "recovery" THEN "ask" ELSE LocalFailure)
  /\ UNCHANGED <<counts, request, expired, cloudVars, runtime, clips>> /\ Job

\* A request to a server that is not well fails; one that is, may, also with
\* a code there is no recovery from.
LocalFails ==
  /\ pc = "sent" /\ local
  /\ IF server = "well" THEN \E p \in {LocalFailure, "ask"} : Trouble(p)
     ELSE Goto(LocalFailure)
  /\ UNCHANGED <<counts, request, expired, cloudVars, runtime, clips>> /\ Job

(***************************************************************************)
(* recover_for_scoring: nothing for a server that is ready; any other is   *)
(* stopped and a new one started.  Then the judgment is asked again.       *)
(***************************************************************************)
Recover ==
  /\ at = "score" /\ pc = "recover"
  /\ IF Ready
       THEN /\ Goto("ensure") /\ request' = [request EXCEPT !.try = 2]
            /\ UNCHANGED <<server, strays>>
       ELSE /\ Goto("boot") /\ server' = "none" /\ UNCHANGED strays
            /\ request' = [request EXCEPT !.try = 2, !.boots = "recovery"]
  /\ UNCHANGED <<counts, expired, cloudVars, kills, clips>> /\ Job

-----------------------------------------------------------------------------
(***************************************************************************)
(* select_diverse_finalists: of the best entries, by any order of their    *)
(* utility, those that tell no story an entry chosen before them tells, as *)
(* many as allowed.  To tell the same story is symmetric, not transitive:  *)
(* same is a set of pairs.                                                 *)
(***************************************************************************)
\* A variant that stops at the limit only.
DiverseNot(entries, limit, same) ==
  {s \in SUBSET entries : Cardinality(s) = Least(limit, Cardinality(entries))}

Diverse(entries, limit, same) ==
  {s \in SUBSET entries :
     /\ \A i, j \in s : {i, j} \notin same
     /\ Cardinality(s) <= limit
     /\ Cardinality(s) = limit
        \/ \A i \in entries \ s : \E j \in s : {i, j} \in same}

Pairs(n) == {p \in SUBSET (1 .. n) : Cardinality(p) = 2}

(***************************************************************************)
(* Of the scored entries the first good ones are recommended, strong or    *)
(* good; those up to eligible are not rejected.  rank_scored_candidates    *)
(* drops what tells a chosen story, whatever its tier.                     *)
(***************************************************************************)
Rank ==
  /\ at = "score" /\ pc = "rank" /\ Goto("ranked")
  /\ \E eligible \in 0 .. scored : \E good \in 0 .. eligible, same \in SUBSET Pairs(eligible) :
     \E ranked \in Diverse(1 .. eligible, eligible, same) :
     \E chosen \in Diverse(ranked \cap 1 .. good, FinalistLimit, same) :
       clips' = [good |-> good, same |-> same, ranked |-> ranked,
                 finalists |-> chosen]
  /\ UNCHANGED <<counts, request, expired, cloudVars, runtime>> /\ Job

(***************************************************************************)
(* The requests about the entries to review, for their music, and for what *)
(* is seen if the provider has vision, whose failure is ignored; with the  *)
(* output preference "more" the borderline entries fill the list.  Only    *)
(* how many requests there are matters from here on.                       *)
(***************************************************************************)
Reviewed(more) ==
  IF more THEN Least(Cardinality(clips.ranked), FinalistLimit)
  ELSE Cardinality(clips.finalists)

BeginExtras ==
  /\ at = "score" /\ pc = "ranked" /\ Goto("extras")
  /\ \E more \in BOOLEAN, each \in {1, 2} :
       todo' = IF local THEN 0 ELSE each * Reviewed(more)
  /\ clips' = NoClips
  /\ UNCHANGED <<round, left, asked, scored, strong, request, expired, cloudVars,
                 runtime>> /\ Job

Extra ==
  /\ at = "score" /\ pc = "extras" /\ todo > 0 /\ Goto("post")
  /\ todo' = todo - 1
  /\ request' = [NoRequest EXCEPT !.extra = TRUE]
  /\ UNCHANGED <<round, left, asked, scored, strong, expired, cloudVars, runtime,
                 clips>> /\ Job

EndScoring ==
  /\ at = "score" /\ pc = "extras" /\ todo = 0 /\ Goto("done")
  /\ server' = "none"
  /\ UNCHANGED <<counts, request, expired, cloudVars, strays, kills, clips>> /\ Job

(***************************************************************************)
(* The process is killed.  Its llama-server has a session of its own and   *)
(* goes on without it.                                                     *)
(***************************************************************************)
KillScoring ==
  /\ Working("score") /\ Trouble("stopped") /\ kills' = kills + 1
  /\ strays' = IF Alive(server) \/ pc = "boot" THEN strays + 1 ELSE strays
  /\ server' = "none" /\ aborted' = FALSE /\ worker' = FALSE
  /\ clips' = NoClips /\ request' = NoRequest
  /\ UNCHANGED <<counts, expired>> /\ Job

ResumeScoring == Resumes("score") /\ UNCHANGED scoringVars

ScoringNext ==
  \/ StartScoring \/ Expire \/ Ask \/ NextRound \/ EndRounds
  \/ Answered \/ Post \/ Refused \/ PostFails \/ Abandon \/ WorkerEnds
  \/ ServerFails \/ Ensure \/ Booted \/ BootFails \/ LocalFails \/ Recover
  \/ Rank \/ BeginExtras \/ Extra \/ EndScoring \/ KillScoring \/ ResumeScoring

-----------------------------------------------------------------------------
(***************************************************************************)
(* A client never has two requests under way: not even when it gave one up *)
(* whose thread is still waiting for its answer.                           *)
(***************************************************************************)
OneRequestAtATime == pc = "sent" => ~worker

(***************************************************************************)
(* A candidate is ranked without having been asked about only if the time  *)
(* was up, or if the local provider had both enough calls and enough strong*)
(* clips, whatever the sizes of the rounds.                                *)
(***************************************************************************)
LeftOutForAReason ==
  at = "score" /\ pc = "rank" /\ asked < prepared =>
    expired \/ (local /\ asked >= MinCalls /\ strong >= StrongMinimum)

(***************************************************************************)
(* A llama-server is left behind only by a kill: not by a failed start, a  *)
(* recovery, a server that hangs or the end of the stage.                  *)
(***************************************************************************)
NoServerLeaks == strays <= kills

(***************************************************************************)
(* Two finalists never tell the same story, and a recommended entry that   *)
(* is not a finalist gave way to a full list, or to an entry of its story  *)
(* that was ranked before it, which need not be recommended itself.        *)
(***************************************************************************)
StoriesShownOnce ==
  pc = "ranked" =>
    /\ \A i, j \in clips.finalists : {i, j} \notin clips.same
    /\ \A i \in (1 .. clips.good) \ clips.finalists :
         \/ Cardinality(clips.finalists) = FinalistLimit
         \/ \E j \in clips.ranked : {i, j} \in clips.same
=============================================================================
