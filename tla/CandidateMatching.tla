-------------------------- MODULE CandidateMatching --------------------------
(***************************************************************************)
(* The requests of one job's recruiter to the language model: matching and *)
(* screening, which are loops of a model turn and the tools it asks for,   *)
(* and the two single calls, skill suggestions and job drafts.             *)
(*                                                                         *)
(* The model is anybody: its turn is any set of tool calls, any submission *)
(* or none.  The tables it reads through the tools change meanwhile.  The  *)
(* job exists and belongs to the recruiter, roles do not change, and a CV  *)
(* is named by its owner; prompts, scores and reasons are left out.  One   *)
(* node of the graph is one step, and the graph may make MaxSteps of them. *)
(***************************************************************************)
EXTENDS Naturals, FiniteSets

CONSTANTS
  Candidates,                   \* users with the role CANDIDATE
  Unknown,                      \* an id that is nobody's
  Skills,                       \* ids a skill may have
  Requests,                     \* slots
  Rounds,                       \* MAX_TOOL_CALL_ROUNDS
  MaxCandidates,                \* AI_MAX_CANDIDATES
  MaxCalls                      \* bound: tool calls in one turn

Ids == Candidates \cup {Unknown}
MaxSteps == Rounds * 2 + 2

ASSUME MatchingAssumption ==
  /\ Unknown \notin Candidates
  /\ Rounds \in Nat /\ MaxCandidates \in Nat \ {0} /\ MaxCalls \in Nat \ {0}

VARIABLES
  applied,                      \* candidates with an application for the job
  analysed,                     \* those with a published, analysed CV
  summarised,                   \* those with an analysed CV, published or not
  active,                       \* those whose status is ACTIVE
  taxonomy,                     \* the skills there are
  request                       \* [Requests -> a request and what it holds]

tables == <<applied, analysed, summarised, active, taxonomy>>
cmVars == <<tables, request>>

Idle == [pc |-> "idle"]

(* The tool calls a turn may hold: the candidate or the CV is the model's  *)
(* choice.                                                                 *)
Call == [tool : {"get_job", "get_applications", "search_candidates"}]
        \cup [tool : {"get_candidate", "get_cv_analysis"}, id : Ids]
Turns == {calls \in SUBSET Call : Cardinality(calls) \in 1..MaxCalls}

CmInit ==
  /\ applied = {} /\ analysed = {} /\ summarised = {}
  /\ active = Candidates /\ taxonomy = {}
  /\ request = [r \in Requests |-> Idle]

Working(r) == request[r].pc \notin {"idle", "answered"}
Finish(r) == request' = [request EXCEPT ![r] = Idle]

-----------------------------------------------------------------------------
(* What the other components do to the tables.                             *)

(* ApplyJobHandler: an application of c for the job; it is never deleted.  *)
Apply(c) ==
  /\ applied' = applied \cup {c}
  /\ UNCHANGED <<analysed, summarised, active, taxonomy, request>>

(* A CV of c is published, made private, deleted, purged or analysed; of   *)
(* one that is not published any more the analysis stays until the purge.  *)
CvChanges(c) ==
  /\ \E published, kept \in BOOLEAN :
       /\ published => kept
       /\ analysed' = IF published THEN analysed \cup {c} ELSE analysed \ {c}
       /\ summarised' = IF kept THEN summarised \cup {c} ELSE summarised \ {c}
  /\ UNCHANGED <<applied, active, taxonomy, request>>

(* An admin blocks c or makes c active again.                              *)
StatusChanges(c) ==
  /\ active' = IF c \in active THEN active \ {c} ELSE active \cup {c}
  /\ UNCHANGED <<applied, analysed, summarised, taxonomy, request>>

(* A skill is added to the taxonomy or deleted from it.                    *)
SkillChanges(k) ==
  /\ taxonomy' = IF k \in taxonomy THEN taxonomy \ {k} ELSE taxonomy \cup {k}
  /\ UNCHANGED <<applied, analysed, summarised, active, request>>

-----------------------------------------------------------------------------
(* CvAnalysisPrismaRepository, read through the tools.                     *)

(* searchCandidatePool; the skills and years the model filters by pick any *)
(* part of it, and at most MaxCandidates rows are taken.                   *)
Pool == applied \cap analysed \cap active
Searches == {S \in SUBSET Pool : Cardinality(S) <= MaxCandidates}

(* findCandidateByUserId: scoped to the job, and blind to a block.         *)
Found == applied \cap analysed

(* Mutant: get_cv_analysis looks up by findByCvId, which is not scoped.    *)
FoundByCv_AnyJob == summarised

(* findByCvIdForJob and isSearchable: the owner of the CV has applied for  *)
(* the job; the CV itself may be private or deleted.                       *)
FoundByCv == applied \cap summarised

-----------------------------------------------------------------------------
(* AiMatchingService, ScreeningService and the agents.                     *)

(* graph.invoke: the agent's node runs first.                              *)
Loop(kind, c) ==
  [pc |-> "agent", kind |-> kind, about |-> c, steps |-> 0,
   known |-> {}, real |-> {}, asked |-> {}, read |-> {}]

(* The pre-check searches the pool by the skills of the job.  When it      *)
(* finds nobody the answer is empty and the model is not called.           *)
StartMatching(r, found) ==
  /\ request[r] = Idle
  /\ request' = [request EXCEPT ![r] =
       IF found = {}
       THEN [pc |-> "answered", kind |-> "match", result |-> {},
             real |-> {}, asked |-> {}]
       ELSE Loop("match", Unknown)]
  /\ UNCHANGED tables

(* The recruiter names the candidate; nothing is looked up before the loop. *)
StartScreening(r, c) ==
  /\ request[r] = Idle
  /\ request' = [request EXCEPT ![r] = Loop("screen", c)]
  /\ UNCHANGED tables

(* The tools of ScreeningToolRegistry; a matching has all of them.         *)
Registered(kind) ==
  {call \in Call :
    kind = "screen" => call.tool \notin {"search_candidates", "get_applications"}}

(* routeAfterAgent: a turn with calls and no submission goes to the tools. *)
AskTools(r, calls) ==
  /\ request[r].pc = "agent" /\ request[r].steps < MaxSteps
  /\ request' = [request EXCEPT ![r] =
       [pc |-> "tools", kind |-> @.kind, about |-> @.about,
        steps |-> @.steps + 1, known |-> @.known, real |-> @.real,
        asked |-> @.asked, read |-> @.read, calls |-> calls]]
  /\ UNCHANGED tables

Called(calls, tool) == \E call \in calls : call.tool = tool

(* createGetCandidateTool: in a screening the bound candidate always wins. *)
IdsAsked(q, calls) ==
  IF q.kind = "screen" /\ Called(calls, "get_candidate") THEN {q.about}
  ELSE {call.id : call \in {d \in calls : d.tool = "get_candidate"}}

(* get_applications lists the applicants, get_cv_analysis reads one CV.    *)
ReadBeside(calls) ==
  (IF Called(calls, "get_applications") THEN applied ELSE {})
  \cup (FoundByCv
         \cap {call.id : call \in {d \in calls : d.tool = "get_cv_analysis"}})

(* What the results of these calls add to q.  An id that get_candidate     *)
(* does not find comes back as {found: false, candidateId}, so it is among *)
(* the ids that collectKnownCandidateIds gathers from the results.         *)
Told(q, calls, S, steps) ==
  LET ids == IdsAsked(q, calls)
      rows == (IF Called(calls, "search_candidates") THEN S ELSE {})
              \cup (ids \cap Found)
  IN  [pc |-> "agent", kind |-> q.kind, about |-> q.about, steps |-> steps,
       known |-> q.known \cup rows \cup ids, real |-> q.real \cup rows,
       asked |-> q.asked \cup ids,
       read |-> q.read \cup rows \cup ReadBeside(calls)]

(* Mutant: a tool round is not counted.                                    *)
RunTools_Free(r, S) ==
  LET q == request[r]
  IN  /\ q.pc = "tools" /\ q.steps < MaxSteps
      /\ \E done \in SUBSET (q.calls \cap Registered(q.kind)) :
           request' = [request EXCEPT ![r] = Told(q, done, S, q.steps - 1)]
      /\ UNCHANGED tables

(* The ToolNode runs the calls of the turn.  A call that fails, or of a    *)
(* tool that is not registered, comes back as an error the model reads.    *)
RunTools(r, S) ==
  LET q == request[r]
  IN  /\ q.pc = "tools" /\ q.steps < MaxSteps
      /\ \E done \in SUBSET (q.calls \cap Registered(q.kind)) :
           request' = [request EXCEPT ![r] = Told(q, done, S, q.steps + 1)]
      /\ UNCHANGED tables

(* Mutant: the cross-check of the submitted ids is dropped.                *)
Accepted_All(q, submitted) == submitted

(* extractSubmission: only ids seen in this run's tool results.            *)
Accepted(q, submitted) == submitted \cap q.known

Submit(r, submitted) ==
  LET q == request[r]
  IN  /\ q.pc = "agent" /\ q.kind = "match" /\ q.steps < MaxSteps
      /\ request' = [request EXCEPT ![r] =
           [pc |-> "answered", kind |-> "match",
            result |-> Accepted(q, submitted),
            real |-> q.real, asked |-> q.asked]]
      /\ UNCHANGED tables

(* A screening ends on plain text.                                         *)
AnswerQuestion(r) ==
  /\ request[r].pc = "agent" /\ request[r].kind = "screen"
  /\ request[r].steps < MaxSteps
  /\ Finish(r)
  /\ UNCHANGED tables

(* GraphRecursionError: the steps are used up and a node is still to run.  *)
RunsOutOfSteps(r) ==
  /\ request[r].pc \in {"agent", "tools"} /\ request[r].steps >= MaxSteps
  /\ Finish(r)
  /\ UNCHANGED tables

(* No submission, one that breaks the schema, or an empty answer.          *)
Rejected(r) ==
  /\ request[r].pc \in {"agent", "suggest", "draft"}
  /\ Finish(r)
  /\ UNCHANGED tables

(* The provider, or the fetch beneath it, times out or refuses, or is not  *)
(* configured, or a query outside the tools fails.                         *)
ProviderFails(r) ==
  /\ Working(r)
  /\ Finish(r)
  /\ UNCHANGED tables

(* The answer is sent.                                                     *)
Reply(r) ==
  /\ request[r].pc = "answered"
  /\ Finish(r)
  /\ UNCHANGED tables

-----------------------------------------------------------------------------
(* SkillSuggestionService and JobDraftService: one forced tool call.       *)

StartSuggesting(r) ==
  /\ request[r] = Idle /\ taxonomy # {}
  /\ request' = [request EXCEPT ![r] =
       [pc |-> "suggest", kind |-> "suggest", offered |-> taxonomy]]
  /\ UNCHANGED tables

Suggest(r, ks) ==
  /\ request[r].pc = "suggest"
  /\ request' = [request EXCEPT ![r] =
       [pc |-> "answered", kind |-> "suggest", result |-> @.offered \cap ks,
        real |-> @.offered, asked |-> {}]]
  /\ UNCHANGED tables

StartDraft(r) ==
  /\ request[r] = Idle
  /\ request' = [request EXCEPT ![r] = [pc |-> "draft", kind |-> "draft"]]
  /\ UNCHANGED tables

(* A draft is shown and nothing is stored.                                 *)
Draft(r) ==
  /\ request[r].pc = "draft"
  /\ Finish(r)
  /\ UNCHANGED tables

-----------------------------------------------------------------------------
Start(r) ==
  \/ \E S \in Searches : StartMatching(r, S)
  \/ \E c \in Ids : StartScreening(r, c)
  \/ StartSuggesting(r) \/ StartDraft(r)

Continue(r) ==
  \/ \E calls \in Turns : AskTools(r, calls)
  \/ \E S \in Searches : RunTools(r, S)
  \/ \E ids \in SUBSET Ids : Submit(r, ids)
  \/ AnswerQuestion(r) \/ RunsOutOfSteps(r)
  \/ Rejected(r) \/ ProviderFails(r)
  \/ \E ks \in SUBSET Skills : Suggest(r, ks)
  \/ Draft(r) \/ Reply(r)

CmNext ==
  \/ \E r \in Requests : Start(r) \/ Continue(r)
  \/ \E c \in Candidates : Apply(c) \/ CvChanges(c) \/ StatusChanges(c)
  \/ \E k \in Skills : SkillChanges(k)

(* The provider answers each call, with whatever it likes.                 *)
CmSpec ==
  /\ CmInit /\ [][CmNext]_cmVars
  /\ \A r \in Requests : WF_cmVars(Continue(r))

-----------------------------------------------------------------------------
(* What a request may hold.  A loop's steps never pass MaxSteps.           *)
AgentState ==
  [pc : {"agent"}, kind : {"match", "screen"}, about : Ids, steps : 0..MaxSteps,
   known : SUBSET Ids, real : SUBSET Candidates, asked : SUBSET Ids,
   read : SUBSET Candidates]
ToolsState ==
  [pc : {"tools"}, kind : {"match", "screen"}, about : Ids, steps : 0..MaxSteps,
   known : SUBSET Ids, real : SUBSET Candidates, asked : SUBSET Ids,
   read : SUBSET Candidates, calls : SUBSET Call]
AnswerState ==
  [pc : {"answered"}, kind : {"match"}, result : SUBSET Ids,
   real : SUBSET Candidates, asked : SUBSET Ids]
  \cup [pc : {"answered"}, kind : {"suggest"}, result : SUBSET Skills,
        real : SUBSET Skills, asked : {{}}]
CallState ==
  [pc : {"suggest"}, kind : {"suggest"}, offered : SUBSET Skills]
  \cup {[pc |-> "draft", kind |-> "draft"]}
RequestState ==
  {Idle} \cup AgentState \cup ToolsState \cup AnswerState \cup CallState

CmTypeOK ==
  /\ applied \subseteq Candidates /\ analysed \subseteq Candidates
  /\ summarised \subseteq Candidates
  /\ active \subseteq Candidates /\ taxonomy \subseteq Skills
  /\ request \in [Requests -> RequestState]

Answered(r) == request[r].pc = "answered"

(* "Never trust a candidateId the model didn't actually receive from       *)
(* search_candidates/get_candidate in this same run" (recruitment.agent):  *)
(* every match, and every suggested skill, is a row a look-up of this      *)
(* request returned.                                                       *)
ResultsAreReal ==
  \A r \in Requests : Answered(r) => request[r].result \subseteq request[r].real

(* What the code does guarantee: the ids that no look-up returned are at   *)
(* most those the model itself had asked get_candidate about.              *)
ResultsAreSeen ==
  \A r \in Requests :
    Answered(r) => request[r].result \subseteq request[r].real \cup request[r].asked

(* "AI tools must never be able to pull up an arbitrary candidate's        *)
(* analysis outside the recruiter's own applicant pool for the job in      *)
(* scope": whomever a matching or a screening has read about, by a search, *)
(* by an id of a candidate or of a CV that the model made up or kept from  *)
(* before, or from the list of applications, has applied for the job.      *)
OnlyApplicantsAreRead ==
  \A r \in Requests :
    request[r].pc \in {"agent", "tools"} => request[r].read \subseteq applied

(* "A confused model can't loop forever": every request comes to an end,   *)
(* whatever tools the model asks for.                                      *)
EveryRequestEnds == \A r \in Requests : Working(r) ~> ~ Working(r)
=============================================================================
