------------------------------ MODULE Ai_proofs ------------------------------
(***************************************************************************)
(* Theorems about the ai component: the analysis of CVs (CvAnalysis) and   *)
(* the requests to the language model (CandidateMatching).                 *)
(***************************************************************************)
EXTENDS CvAnalysis, CandidateMatching, TLAPS

-----------------------------------------------------------------------------
(* CandidateMatching                                                       *)

(* What a request holds beside its type: the ids its submission may name   *)
(* came back from a tool or were asked about, and whomever it has read     *)
(* about had applied when they were read, as they still have.              *)
KnownIsSeen(q) ==
  /\ q.pc \in {"agent", "tools"} => /\ q.known \subseteq q.real \cup q.asked
                                    /\ q.read \subseteq applied
  /\ q.pc = "answered" => q.result \subseteq q.real \cup q.asked

RequestsKnowWhatTheySaw == \A r \in Requests : KnownIsSeen(request[r])

CmInv == CmTypeOK /\ RequestsKnowWhatTheySaw

LEMMA RequestStateByPc ==
  ASSUME CmTypeOK, NEW r \in Requests
  PROVE  /\ request[r].pc = "agent" => request[r] \in AgentState
         /\ request[r].pc = "tools" => request[r] \in ToolsState
         /\ request[r].pc = "suggest" =>
              request[r] \in [pc : {"suggest"}, kind : {"suggest"},
                              offered : SUBSET Skills]
  BY DEF CmTypeOK, RequestState, Idle, AgentState, ToolsState, AnswerState, CallState

(* A step that gives one request a state it may hold, and no applicant up. *)
LEMMA RequestMoves ==
  ASSUME CmInv, NEW r \in Requests,
         NEW q \in RequestState, KnownIsSeen(q),
         request' = [request EXCEPT ![r] = q],
         UNCHANGED tables
  PROVE  CmInv'
<1>1. \A s \in Requests : request'[s] = IF s = r THEN q ELSE request[s]
  BY DEF CmInv, CmTypeOK
<1>2. RequestsKnowWhatTheySaw'
  BY <1>1 DEF CmInv, RequestsKnowWhatTheySaw, KnownIsSeen, tables
<1>3. CmTypeOK'
  BY DEF CmInv, CmTypeOK, tables
<1> QED BY <1>2, <1>3 DEF CmInv

LEMMA LoopIsAgentState ==
  ASSUME NEW kind \in {"match", "screen"}, NEW c \in Ids
  PROVE  Loop(kind, c) \in AgentState /\ KnownIsSeen(Loop(kind, c))
<1>1. 0 \in 0..MaxSteps
  BY MatchingAssumption DEF MaxSteps
<1> QED BY <1>1 DEF Loop, AgentState, KnownIsSeen

LEMMA FinishKeepsCmInv ==
  ASSUME CmInv, NEW r \in Requests, Finish(r), UNCHANGED tables
  PROVE  CmInv'
<1>1. KnownIsSeen(Idle)
  BY DEF KnownIsSeen, Idle
<1> QED BY <1>1, RequestMoves DEF Finish, RequestState

LEMMA StartKeepsCmInv ==
  ASSUME CmInv, NEW r \in Requests, Start(r)
  PROVE  CmInv'
<1>1. ASSUME NEW S \in Searches, StartMatching(r, S) PROVE CmInv'
  <2>1. CASE S = {}
    <3> DEFINE q == [pc |-> "answered", kind |-> "match", result |-> {},
                     real |-> {}, asked |-> {}]
    <3>1. q \in AnswerState /\ KnownIsSeen(q)
      BY DEF AnswerState, KnownIsSeen
    <3> QED BY <1>1, <2>1, <3>1, RequestMoves DEF RequestState, StartMatching
  <2>2. CASE S # {}
    <3>1. Loop("match", Unknown) \in AgentState /\ KnownIsSeen(Loop("match", Unknown))
      BY LoopIsAgentState DEF Ids
    <3> QED BY <1>1, <2>2, <3>1, RequestMoves DEF RequestState, StartMatching
  <2> QED BY <2>1, <2>2
<1>2. ASSUME NEW c \in Ids, StartScreening(r, c) PROVE CmInv'
  BY <1>2, LoopIsAgentState, RequestMoves DEF RequestState, StartScreening
<1>3. CASE StartSuggesting(r)
  <2> DEFINE q == [pc |-> "suggest", kind |-> "suggest", offered |-> taxonomy]
  <2>1. q \in CallState /\ KnownIsSeen(q)
    BY DEF CallState, KnownIsSeen, CmInv, CmTypeOK
  <2> QED BY <1>3, <2>1, RequestMoves DEF RequestState, StartSuggesting
<1>4. CASE StartDraft(r)
  <2> DEFINE q == [pc |-> "draft", kind |-> "draft"]
  <2>1. q \in CallState /\ KnownIsSeen(q)
    BY DEF CallState, KnownIsSeen
  <2> QED BY <1>4, <2>1, RequestMoves DEF RequestState, StartDraft
<1> QED BY <1>1, <1>2, <1>3, <1>4 DEF Start

LEMMA AskToolsKeepsCmInv ==
  ASSUME CmInv, NEW r \in Requests, NEW calls \in Turns, AskTools(r, calls)
  PROVE  CmInv'
<1>1. request[r] \in AgentState
  BY RequestStateByPc DEF AskTools, CmInv
<1> DEFINE p == request[r]
           q == [pc |-> "tools", kind |-> p.kind, about |-> p.about,
                 steps |-> p.steps + 1, known |-> p.known, real |-> p.real,
                 asked |-> p.asked, read |-> p.read, calls |-> calls]
<1>2. p.steps + 1 \in 0..MaxSteps
  BY <1>1, MatchingAssumption DEF AskTools, AgentState, MaxSteps
<1>3. q \in ToolsState
  BY <1>1, <1>2 DEF AgentState, ToolsState, Turns
<1>4. KnownIsSeen(p)
  BY DEF CmInv, RequestsKnowWhatTheySaw
<1>5. KnownIsSeen(q)
  BY <1>1, <1>4 DEF KnownIsSeen, AgentState
<1>6. request' = [request EXCEPT ![r] = q] /\ UNCHANGED tables
  BY DEF AskTools, CmInv, CmTypeOK
<1> QED BY <1>3, <1>5, <1>6, RequestMoves DEF RequestState

(* What the results of a round add: everybody the tools tell of has        *)
(* applied for the job, by whichever tool and id the model went.           *)
LEMMA ToolsTellOfApplicants ==
  ASSUME CmInv, NEW q \in ToolsState, NEW calls \in SUBSET Call, NEW S \in Searches,
         NEW n \in 0..MaxSteps,
         q.known \subseteq q.real \cup q.asked, q.read \subseteq applied
  PROVE  Told(q, calls, S, n) \in AgentState /\ KnownIsSeen(Told(q, calls, S, n))
<1> DEFINE ids == IdsAsked(q, calls)
           rows == (IF Called(calls, "search_candidates") THEN S ELSE {})
                   \cup (ids \cap Found)
           beside == ReadBeside(calls)
<1>1. applied \subseteq Candidates /\ Candidates \subseteq Ids
  BY DEF CmInv, CmTypeOK, Ids
<1>2. rows \subseteq applied
  BY DEF Searches, Pool, Found
<1>3. ids \subseteq Ids
  <2>1. \A call \in calls : call.tool = "get_candidate" => call.id \in Ids
    BY DEF Call
  <2> QED BY <2>1 DEF IdsAsked, ToolsState
<1>4. beside \subseteq applied
  BY DEF ReadBeside, FoundByCv
<1>5. /\ q.kind \in {"match", "screen"} /\ q.about \in Ids
      /\ q.known \subseteq Ids /\ q.real \subseteq Candidates
      /\ q.asked \subseteq Ids /\ q.read \subseteq Candidates
  BY DEF ToolsState
<1>6. Told(q, calls, S, n) =
        [pc |-> "agent", kind |-> q.kind, about |-> q.about, steps |-> n,
         known |-> q.known \cup rows \cup ids, real |-> q.real \cup rows,
         asked |-> q.asked \cup ids, read |-> q.read \cup rows \cup beside]
  BY DEF Told
<1> HIDE DEF ids, rows, beside
<1>7. /\ q.known \cup rows \cup ids \in SUBSET Ids
      /\ q.real \cup rows \in SUBSET Candidates
      /\ q.asked \cup ids \in SUBSET Ids
      /\ q.read \cup rows \cup beside \in SUBSET Candidates
  BY <1>1, <1>2, <1>3, <1>4, <1>5
<1>8. /\ q.known \cup rows \cup ids \subseteq (q.real \cup rows) \cup (q.asked \cup ids)
      /\ q.read \cup rows \cup beside \subseteq applied
  BY <1>2, <1>4
<1> QED BY <1>5, <1>6, <1>7, <1>8 DEF AgentState, KnownIsSeen

LEMMA RunToolsKeepsCmInv ==
  ASSUME CmInv, NEW r \in Requests, NEW S \in Searches, RunTools(r, S)
  PROVE  CmInv'
<1>1. request[r] \in ToolsState
  BY RequestStateByPc DEF RunTools, CmInv
<1> DEFINE p == request[r]
<1>2. p.steps + 1 \in 0..MaxSteps /\ p.calls \in SUBSET Call
  BY <1>1, MatchingAssumption DEF RunTools, ToolsState, MaxSteps
<1>3. p.known \subseteq p.real \cup p.asked /\ p.read \subseteq applied
  BY <1>1 DEF CmInv, RequestsKnowWhatTheySaw, KnownIsSeen, ToolsState
<1>4. PICK done \in SUBSET Call :
        request' = [request EXCEPT ![r] = Told(p, done, S, p.steps + 1)]
  BY <1>2 DEF RunTools
<1>5. Told(p, done, S, p.steps + 1) \in AgentState
        /\ KnownIsSeen(Told(p, done, S, p.steps + 1))
  BY <1>1, <1>2, <1>3, ToolsTellOfApplicants
<1>6. UNCHANGED tables
  BY DEF RunTools
<1> QED BY <1>4, <1>5, <1>6, RequestMoves DEF RequestState

LEMMA SubmitKeepsCmInv ==
  ASSUME CmInv, NEW r \in Requests, NEW ids \in SUBSET Ids, Submit(r, ids)
  PROVE  CmInv'
<1>1. request[r] \in AgentState
  BY RequestStateByPc DEF Submit, CmInv
<1> DEFINE p == request[r]
           q == [pc |-> "answered", kind |-> "match", result |-> Accepted(p, ids),
                 real |-> p.real, asked |-> p.asked]
<1>2. q \in AnswerState
  BY <1>1 DEF AgentState, AnswerState, Accepted
<1>3. p.known \subseteq p.real \cup p.asked
  BY <1>1 DEF CmInv, RequestsKnowWhatTheySaw, KnownIsSeen, AgentState
<1>4. KnownIsSeen(q)
  BY <1>3 DEF KnownIsSeen, Accepted
<1>5. request' = [request EXCEPT ![r] = q] /\ UNCHANGED tables
  BY DEF Submit, CmInv, CmTypeOK
<1> QED BY <1>2, <1>4, <1>5, RequestMoves DEF RequestState

LEMMA SuggestKeepsCmInv ==
  ASSUME CmInv, NEW r \in Requests, NEW ks \in SUBSET Skills, Suggest(r, ks)
  PROVE  CmInv'
<1> DEFINE p == request[r]
           q == [pc |-> "answered", kind |-> "suggest",
                 result |-> p.offered \cap ks, real |-> p.offered, asked |-> {}]
<1>1. p.offered \subseteq Skills
  BY RequestStateByPc DEF Suggest, CmInv
<1>2. q \in AnswerState /\ KnownIsSeen(q)
  BY <1>1 DEF AnswerState, KnownIsSeen
<1>3. request' = [request EXCEPT ![r] = q] /\ UNCHANGED tables
  BY DEF Suggest, CmInv, CmTypeOK
<1> QED BY <1>2, <1>3, RequestMoves DEF RequestState

(* The tables change under the requests; applications only ever come.      *)
LEMMA TablesKeepCmInv ==
  ASSUME CmInv,
         \/ \E c \in Candidates : Apply(c) \/ CvChanges(c) \/ StatusChanges(c)
         \/ \E k \in Skills : SkillChanges(k)
  PROVE  CmInv'
<1>1. /\ request' = request /\ applied \subseteq applied'
      /\ applied' \subseteq Candidates /\ analysed' \subseteq Candidates
      /\ summarised' \subseteq Candidates
      /\ active' \subseteq Candidates /\ taxonomy' \subseteq Skills
  BY DEF Apply, CvChanges, StatusChanges, SkillChanges, CmInv, CmTypeOK
<1>2. CmTypeOK'
  BY <1>1 DEF CmInv, CmTypeOK
<1>3. RequestsKnowWhatTheySaw'
  BY <1>1 DEF CmInv, RequestsKnowWhatTheySaw, KnownIsSeen
<1> QED BY <1>1, <1>2, <1>3 DEF CmInv

LEMMA CmInvInductive == CmInv /\ [CmNext]_cmVars => CmInv'
<1> SUFFICES ASSUME CmInv, [CmNext]_cmVars PROVE CmInv'
  OBVIOUS
<1>1. ASSUME NEW r \in Requests, Start(r) PROVE CmInv'
  BY <1>1, StartKeepsCmInv
<1>2. ASSUME NEW r \in Requests, Continue(r) PROVE CmInv'
  <2>1. CASE \/ AnswerQuestion(r) \/ RunsOutOfSteps(r) \/ Rejected(r)
             \/ ProviderFails(r) \/ Draft(r) \/ Reply(r)
    BY <2>1, FinishKeepsCmInv
       DEF AnswerQuestion, RunsOutOfSteps, Rejected, ProviderFails, Draft, Reply
  <2> QED BY <1>2, <2>1, AskToolsKeepsCmInv, RunToolsKeepsCmInv,
             SubmitKeepsCmInv, SuggestKeepsCmInv DEF Continue
<1>3. CASE UNCHANGED cmVars
  BY <1>3 DEF cmVars, tables, CmInv, CmTypeOK, RequestsKnowWhatTheySaw, KnownIsSeen
<1> QED BY <1>1, <1>2, <1>3, TablesKeepCmInv DEF CmNext

LEMMA CmInvHolds == CmSpec => []CmInv
<1>1. CmInit => CmInv
  BY DEF CmInit, CmInv, CmTypeOK, RequestState, RequestsKnowWhatTheySaw, KnownIsSeen, Idle
<1> QED BY <1>1, CmInvInductive, PTL DEF CmSpec

(* Requests hold what their stage says, and no loop of the agents makes    *)
(* more steps than the graph's recursion limit.                            *)
THEOREM MatchingTypes == CmSpec => []CmTypeOK
<1>1. CmInv => CmTypeOK
  BY DEF CmInv
<1> QED BY <1>1, CmInvHolds, PTL

(* Whatever the model submits and whenever the tables change, an answer    *)
(* names only candidates that a tool call of the same run returned, or     *)
(* that the model had asked get_candidate about.                           *)
THEOREM AnswersAreSeen == CmSpec => []ResultsAreSeen
<1>1. CmInv => ResultsAreSeen
  BY DEF CmInv, RequestsKnowWhatTheySaw, KnownIsSeen, ResultsAreSeen, Answered
<1> QED BY <1>1, CmInvHolds, PTL

(* Whomever a loop has read about has applied for the job: found by a      *)
(* search, asked about by id, reached by the id of a CV, or listed.        *)
THEOREM ReadsStayInTheJob == CmSpec => []OnlyApplicantsAreRead
<1>1. CmInv => OnlyApplicantsAreRead
  BY DEF CmInv, RequestsKnowWhatTheySaw, KnownIsSeen, OnlyApplicantsAreRead
<1> QED BY <1>1, CmInvHolds, PTL
-----------------------------------------------------------------------------
(* CvAnalysis                                                              *)

(* Workers hold what their stage says; of the rows' ages and statuses.     *)
LEMMA WorkerStateByPc ==
  ASSUME AnTypeOK, NEW w \in Workers
  PROVE  /\ worker[w] # AtRest => /\ worker[w].todo \in SUBSET Cvs
                                  /\ worker[w].todo # {}
         /\ worker[w].pc = "claim" =>
              worker[w] \in [kind : {"run"}, pc : {"claim"}, todo : SUBSET Cvs,
                             unseen : SUBSET Cvs, late : BOOLEAN]
         /\ worker[w].pc \in {"read", "file", "model"} =>
              worker[w] \in [kind : {"run", "listener"},
                             pc : {"read", "file", "model"},
                             todo : SUBSET Cvs, late : BOOLEAN]
         /\ worker[w].pc = "save" =>
              worker[w] \in [kind : {"run", "listener"}, pc : {"save"},
                             todo : SUBSET Cvs, late : BOOLEAN,
                             result : {"COMPLETED", "FAILED"}]
  BY DEF AnTypeOK, WorkerState, AtRest

LEMMA AgeOfRows ==
  /\ 0 \in 0 .. Unclaimed /\ Unclaimed \in 0 .. Unclaimed /\ Unclaimed # 0
  /\ Stale \in Nat \ {0}
  /\ \A row \in AnalysisRow :
       /\ Aged(row) \in AnalysisRow /\ Claimed(row) \in AnalysisRow
       /\ Aged(row).status = row.status /\ Claimed(row).status = row.status
       /\ row.claim # 0 => Aged(row).claim # 0
       /\ row.claim \in {Stale, Unclaimed} => Aged(row).claim = row.claim
<1>1. Unclaimed = StaleAfter + 2 /\ Stale = StaleAfter + 1 /\ StaleAfter \in Nat
  BY AnalysisAssumption DEF Unclaimed, Stale
<1>2. ASSUME NEW row \in AnalysisRow
      PROVE  /\ Aged(row) = [status |-> row.status,
                             claim |-> IF row.claim < Stale THEN row.claim + 1
                                       ELSE row.claim]
             /\ Claimed(row) = [status |-> row.status, claim |-> 0]
             /\ row.status \in {"PENDING", "COMPLETED", "FAILED"}
             /\ row.claim \in 0 .. Unclaimed
  BY DEF Aged, Claimed, AnalysisRow
<1> HIDE DEF Unclaimed, Stale
<1> QED BY <1>1, <1>2 DEF AnalysisRow

LEMMA NextPhase ==
  ASSUME phase \in 0 .. Period - 1
  PROVE  /\ (phase + 1) % Period \in 0 .. Period - 1
         /\ Period > 1 /\ phase = 0 => (phase + 1) % Period = 1
<1>1. Period \in Nat \ {0}
  BY AnalysisAssumption
<1>2. CASE phase + 1 < Period
  BY <1>1, <1>2
<1>3. CASE phase + 1 = Period
  BY <1>1, <1>3
<1> QED BY <1>1, <1>2, <1>3

(* A run that is about to claim took each CV of its batch either without a *)
(* row, or with one, and rows are never deleted.                           *)
ClaimsHaveRows ==
  \A w \in Workers : worker[w].pc = "claim" =>
    \A c \in worker[w].todo \ worker[w].unseen : HasRow(c)

(* The inductive core of FreshClaimIsRespected: one run at most is between *)
(* its two queries, it is there before the cron is due again, and what it  *)
(* read of the claims still holds.                                         *)
OneRunClaims ==
  /\ due => phase = 0
  /\ \A w \in Workers : worker[w].pc = "claim" =>
       /\ ~ due
       /\ phase = IF worker[w].late THEN 1 ELSE 0
       /\ \A v \in Workers : worker[v].pc = "claim" => v = w

ClaimsAreCurrent ==
  \A w \in Workers : worker[w].pc = "claim" =>
    \A c \in worker[w].todo \ worker[w].unseen :
      analysis[c].claim \in {Stale, Unclaimed}

(* Where a step leaves a worker, or the rows, typed.                       *)
LEMMA WorkerMoves ==
  ASSUME AnTypeOK, NEW w \in Workers, NEW s \in WorkerState,
         s # AtRest => s.todo # {},
         worker' = [worker EXCEPT ![w] = s],
         analysis' \in [Cvs -> AnalysisRow \cup {NoRow}],
         cv' \in [Cvs -> {"absent", "live", "deleted"}],
         due' \in BOOLEAN, UNCHANGED <<phase, restarts>>
  PROVE  AnTypeOK'
<1>1. \A v \in Workers : worker'[v] = IF v = w THEN s ELSE worker[v]
  BY DEF AnTypeOK
<1>2. worker' \in [Workers -> WorkerState]
  BY DEF AnTypeOK
<1>3. \A v \in Workers : worker'[v] # AtRest => worker'[v].todo # {}
  BY <1>1 DEF AnTypeOK
<1> QED BY <1>2, <1>3 DEF AnTypeOK

LEMMA AtRestKeepsAnTypes ==
  ASSUME AnTypeOK, NEW w \in Workers, worker' = [worker EXCEPT ![w] = AtRest],
         analysis' \in [Cvs -> AnalysisRow \cup {NoRow}],
         UNCHANGED <<cv, due, phase, restarts>>
  PROVE  AnTypeOK'
<1>1. AtRest \in WorkerState
  BY DEF WorkerState
<1> QED BY <1>1, WorkerMoves DEF AnTypeOK

LEMMA AnalyzingIsWorkerState ==
  ASSUME NEW kind \in {"run", "listener"}, NEW todo \in SUBSET Cvs
  PROVE  /\ Analyzing(kind, todo) \in WorkerState
         /\ Analyzing(kind, todo).todo = todo
         /\ Analyzing(kind, todo).pc = "read"
  BY DEF Analyzing, WorkerState

LEMMA TurnOverKeepsAnTypes ==
  ASSUME AnTypeOK, NEW w \in Workers, TurnOver(w),
         worker[w].pc \in {"file", "save"},
         analysis' \in [Cvs -> AnalysisRow \cup {NoRow}],
         UNCHANGED <<cv, due, phase, restarts>>
  PROVE  AnTypeOK'
<1> DEFINE rest == worker[w].todo \ {Turn(w)}
<1>1. worker[w].kind \in {"run", "listener"} /\ rest \in SUBSET Cvs
  BY WorkerStateByPc
<1>2. CASE rest = {}
  BY <1>2, AtRestKeepsAnTypes DEF TurnOver
<1>3. CASE rest # {}
  <2> DEFINE s == Analyzing(worker[w].kind, rest)
  <2>1. s \in WorkerState /\ s.todo = rest
    BY <1>1, AnalyzingIsWorkerState
  <2>2. worker' = [worker EXCEPT ![w] = s]
    BY <1>3 DEF TurnOver
  <2> HIDE DEF s
  <2> QED BY <1>3, <2>1, <2>2, WorkerMoves DEF AnTypeOK
<1> QED BY <1>2, <1>3

LEMMA AnalyzeKeepsAnTypes ==
  ASSUME AnTypeOK, NEW w \in Workers, Analyze(w)
  PROVE  AnTypeOK'
<1> DEFINE k == worker[w]
<1>1. ASSUME NEW pc \in {"file", "model"}, k.pc \in {"read", "file"}, GoTo(w, pc),
             UNCHANGED <<cv, analysis, phase, due, restarts>>
      PROVE  AnTypeOK'
  <2> DEFINE s == [k EXCEPT !.pc = pc]
  <2>1. k \in [kind : {"run", "listener"}, pc : {"read", "file", "model"},
               todo : SUBSET Cvs, late : BOOLEAN] /\ k.todo # {}
    BY <1>1, WorkerStateByPc DEF AtRest
  <2>2. s \in WorkerState /\ s.todo # {}
    BY <2>1 DEF WorkerState
  <2>3. worker' = [worker EXCEPT ![w] = s]
    BY <1>1 DEF GoTo
  <2> HIDE DEF s
  <2> QED BY <1>1, <2>2, <2>3, WorkerMoves DEF AnTypeOK
<1>2. ASSUME NEW result \in {"COMPLETED", "FAILED"}, k.pc \in {"model", "save"},
             ToSave(w, result), UNCHANGED <<cv, analysis, phase, due, restarts>>
      PROVE  AnTypeOK'
  <2> DEFINE s == [kind |-> k.kind, pc |-> "save", todo |-> k.todo,
                   late |-> k.late, result |-> result]
  <2>1. /\ k.kind \in {"run", "listener"} /\ k.todo \in SUBSET Cvs
        /\ k.late \in BOOLEAN /\ k.todo # {}
    BY <1>2, WorkerStateByPc DEF AtRest
  <2>2. s \in WorkerState /\ s.todo # {}
    BY <2>1 DEF WorkerState
  <2>3. worker' = [worker EXCEPT ![w] = s]
    BY <1>2 DEF ToSave, AnTypeOK
  <2> HIDE DEF s
  <2> QED BY <1>2, <2>2, <2>3, WorkerMoves DEF AnTypeOK
<1>3. CASE ReadAnalysis(w)
  BY <1>1, <1>3 DEF ReadAnalysis
<1>4. CASE ReadAnalysisThrows(w)
  BY <1>4, AtRestKeepsAnTypes DEF ReadAnalysisThrows, AnTypeOK
<1>5. CASE FindFile(w)
  BY <1>1, <1>5, TurnOverKeepsAnTypes DEF FindFile, AnTypeOK
<1>6. CASE Extract(w) \/ AnalysisFails(w)
  BY <1>2, <1>6 DEF Extract, AnalysisFails
<1>7. CASE SaveAnalysis(w)
  <2>1. k.result \in {"COMPLETED", "FAILED"}
    BY <1>7, WorkerStateByPc DEF SaveAnalysis
  <2>2. [status |-> k.result, claim |-> Unclaimed] \in AnalysisRow
    BY <2>1, AgeOfRows DEF AnalysisRow
  <2>3. analysis' \in [Cvs -> AnalysisRow \cup {NoRow}]
    BY <1>7, <2>2 DEF SaveAnalysis, AnTypeOK
  <2> QED BY <1>7, <2>3, TurnOverKeepsAnTypes DEF SaveAnalysis
<1>8. CASE SaveAnalysisFails(w)
  BY <1>2, <1>8, TurnOverKeepsAnTypes DEF SaveAnalysisFails, AnTypeOK
<1> QED BY <1>3, <1>4, <1>5, <1>6, <1>7, <1>8 DEF Analyze

LEMMA UploadsKeepAnTypes ==
  ASSUME AnTypeOK,
         \/ \E c \in Cvs : UploadUnheard(c) \/ DeleteCv(c)
         \/ \E w \in Workers, c \in Cvs : Upload(w, c)
  PROVE  AnTypeOK'
<1>1. ASSUME NEW w \in Workers, NEW c \in Cvs, Upload(w, c) PROVE AnTypeOK'
  <2>1. Analyzing("listener", {c}) \in WorkerState
        /\ Analyzing("listener", {c}).todo # {}
    BY AnalyzingIsWorkerState
  <2> QED BY <1>1, <2>1, WorkerMoves DEF Upload, AnTypeOK
<1>2. ASSUME NEW c \in Cvs, UploadUnheard(c) \/ DeleteCv(c) PROVE AnTypeOK'
  BY <1>2 DEF UploadUnheard, DeleteCv, AnTypeOK
<1> QED BY <1>1, <1>2

LEMMA CronKeepsAnTypes ==
  ASSUME AnTypeOK, ClaimsHaveRows, NEW w \in Workers,
         CronRead(w) \/ CronClaim(w) \/ CronClaimFails(w)
  PROVE  AnTypeOK'
<1>1. CASE CronRead(w)
  <2> DEFINE s == [kind |-> "run", pc |-> "claim", todo |-> Batch,
                   unseen |-> {c \in Batch : ~ HasRow(c)}, late |-> FALSE]
  <2>1. Batch \in SUBSET Cvs
    BY DEF Batch, Pending
  <2>2. s \in WorkerState /\ s.todo = Batch /\ AtRest \in WorkerState
    BY <2>1 DEF WorkerState
  <2>3. worker' = [worker EXCEPT ![w] = IF Batch = {} THEN AtRest ELSE s]
    BY <1>1 DEF CronRead
  <2> HIDE DEF s
  <2> QED BY <1>1, <2>2, <2>3, WorkerMoves DEF CronRead, AnTypeOK
<1>2. CASE CronClaim(w)
  <2>1. worker[w].todo \in SUBSET Cvs /\ worker[w].todo # {}
    BY <1>2, WorkerStateByPc DEF CronClaim, AtRest
  <2>2. Analyzing("run", worker[w].todo) \in WorkerState
        /\ Analyzing("run", worker[w].todo).todo # {}
    BY <2>1, AnalyzingIsWorkerState
  <2>3. [status |-> "PENDING", claim |-> 0] \in AnalysisRow
    BY AgeOfRows DEF AnalysisRow
  <2>4. \A c \in Cvs : analysis'[c] \in AnalysisRow \cup {NoRow}
    <3> SUFFICES ASSUME NEW c \in Cvs PROVE analysis'[c] \in AnalysisRow \cup {NoRow}
      OBVIOUS
    <3>1. analysis[c] \in AnalysisRow \cup {NoRow}
      BY DEF AnTypeOK
    <3>2. CASE c \in worker[w].todo \ worker[w].unseen
      <4>1. analysis[c] \in AnalysisRow
        BY <1>2, <3>1, <3>2 DEF CronClaim, ClaimsHaveRows, HasRow
      <4>2. analysis'[c] = Claimed(analysis[c])
        BY <1>2, <3>2 DEF CronClaim
      <4> QED BY <4>1, <4>2, AgeOfRows
    <3>3. CASE c \notin worker[w].todo \ worker[w].unseen
      BY <1>2, <2>3, <3>1, <3>3 DEF CronClaim
    <3> QED BY <3>2, <3>3
  <2> QED BY <1>2, <2>2, <2>4, WorkerMoves DEF CronClaim, AnTypeOK
<1>3. CASE CronClaimFails(w)
  BY <1>3, AtRestKeepsAnTypes DEF CronClaimFails, AnTypeOK
<1> QED BY <1>1, <1>2, <1>3

LEMMA TimeKeepsAnTypes ==
  ASSUME AnTypeOK, UnitPasses \/ Restart
  PROVE  AnTypeOK'
<1>1. CASE UnitPasses
  <2>1. \A w \in Workers : /\ worker'[w] \in WorkerState
                           /\ worker'[w] # AtRest => worker'[w].todo # {}
    <3> SUFFICES ASSUME NEW w \in Workers
                 PROVE  /\ worker'[w] \in WorkerState
                        /\ worker'[w] # AtRest => worker'[w].todo # {}
      OBVIOUS
    <3>1. CASE worker[w] = AtRest
      BY <1>1, <3>1 DEF UnitPasses, WorkerState
    <3>2. CASE worker[w] # AtRest
      <4> DEFINE s == [worker[w] EXCEPT !.late = TRUE]
      <4>1. worker[w] \in WorkerState \ {AtRest} /\ worker[w].todo # {}
        BY <3>2 DEF AnTypeOK
      <4>2. s \in WorkerState /\ s.todo # {}
        BY <4>1 DEF WorkerState
      <4>3. worker'[w] = s
        BY <1>1, <3>2 DEF UnitPasses
      <4> QED BY <4>2, <4>3
    <3> QED BY <3>1, <3>2
  <2>2. \A c \in Cvs : analysis'[c] \in AnalysisRow \cup {NoRow}
    BY <1>1, AgeOfRows DEF UnitPasses, AnTypeOK, HasRow
  <2>3. phase' \in 0 .. Period - 1
    BY <1>1, NextPhase DEF UnitPasses, AnTypeOK
  <2> QED BY <1>1, <2>1, <2>2, <2>3 DEF UnitPasses, AnTypeOK
<1>2. CASE Restart
  <2>1. restarts' \in 0 .. MaxRestarts
    BY <1>2, AnalysisAssumption DEF Restart, AnTypeOK
  <2>2. AtRest \in WorkerState
    BY DEF WorkerState
  <2> QED BY <1>2, <2>1, <2>2 DEF Restart, AnTypeOK
<1> QED BY <1>1, <1>2

LEMMA AnTypesInductive ==
  AnTypeOK /\ ClaimsHaveRows /\ [AnNext]_anVars => AnTypeOK'
<1> SUFFICES ASSUME AnTypeOK, ClaimsHaveRows, [AnNext]_anVars PROVE AnTypeOK'
  OBVIOUS
<1>1. CASE UNCHANGED anVars
  BY <1>1 DEF anVars, AnTypeOK
<1> QED BY <1>1, AnalyzeKeepsAnTypes, UploadsKeepAnTypes, CronKeepsAnTypes,
           TimeKeepsAnTypes DEF AnNext

(* What a step may do to a row that there is: nothing, a result, a claim   *)
(* by a run that read the row before, or an hour hand that moves.          *)
LEMMA RowChanges ==
  ASSUME AnTypeOK, ClaimsHaveRows, [AnNext]_anVars,
         NEW c \in Cvs, HasRow(c)
  PROVE  \/ analysis'[c] = analysis[c]
         \/ analysis'[c] \in [status : {"COMPLETED", "FAILED"}, claim : {Unclaimed}]
         \/ analysis'[c] = Aged(analysis[c])
         \/ /\ analysis'[c] = Claimed(analysis[c])
            /\ \E w \in Workers : /\ CronClaim(w)
                                  /\ c \in worker[w].todo \ worker[w].unseen
<1>1. ASSUME NEW w \in Workers, SaveAnalysis(w), analysis'[c] # analysis[c]
      PROVE  analysis'[c] \in [status : {"COMPLETED", "FAILED"}, claim : {Unclaimed}]
  <2>1. worker[w].result \in {"COMPLETED", "FAILED"}
    BY <1>1, WorkerStateByPc DEF SaveAnalysis
  <2> QED BY <1>1, <2>1 DEF SaveAnalysis, AnTypeOK
<1>2. ASSUME NEW w \in Workers, CronClaim(w), analysis'[c] # analysis[c]
      PROVE  /\ analysis'[c] = Claimed(analysis[c])
             /\ c \in worker[w].todo \ worker[w].unseen
  BY <1>2 DEF CronClaim
<1>3. CASE UnitPasses
  BY <1>3 DEF UnitPasses
<1>4. ASSUME NEW w \in Workers, Analyze(w), ~ SaveAnalysis(w)
      PROVE  analysis' = analysis
  BY <1>4 DEF Analyze, ReadAnalysis, ReadAnalysisThrows, FindFile, Extract,
              AnalysisFails, SaveAnalysisFails
<1>5. ASSUME NEW w \in Workers, CronRead(w) \/ CronClaimFails(w)
      PROVE  analysis' = analysis
  BY <1>5 DEF CronRead, CronClaimFails
<1>6. ASSUME NEW d \in Cvs, \/ UploadUnheard(d) \/ DeleteCv(d)
                            \/ \E w \in Workers : Upload(w, d)
      PROVE  analysis' = analysis
  BY <1>6 DEF UploadUnheard, DeleteCv, Upload
<1>7. CASE Restart \/ UNCHANGED anVars
  BY <1>7 DEF Restart, anVars
<1> QED BY <1>1, <1>2, <1>3, <1>4, <1>5, <1>6, <1>7 DEF AnNext

LEMMA RowsStay ==
  ASSUME AnTypeOK, ClaimsHaveRows, [AnNext]_anVars, NEW c \in Cvs, HasRow(c)
  PROVE  analysis'[c] \in AnalysisRow /\ HasRow(c)'
<1>1. analysis[c] \in AnalysisRow
  BY DEF AnTypeOK, HasRow
<1>2. analysis'[c] \in AnalysisRow \cup {NoRow}
  BY AnTypesInductive DEF AnTypeOK
<1>3. analysis' [c] # NoRow
  <2>1. CASE analysis'[c] = analysis[c] \/ analysis'[c] = Aged(analysis[c])
             \/ analysis'[c] = Claimed(analysis[c])
    BY <1>1, <2>1, AgeOfRows, NoAnalysisAssumption
  <2>2. CASE analysis'[c] \in [status : {"COMPLETED", "FAILED"}, claim : {Unclaimed}]
    BY <2>2, AgeOfRows, NoAnalysisAssumption DEF AnalysisRow
  <2> QED BY <2>1, <2>2, RowChanges
<1> QED BY <1>2, <1>3 DEF HasRow

(* Who is about to claim was so before, with the same batch, or has just   *)
(* read it.                                                                *)
LEMMA ClaimingRuns ==
  ASSUME AnTypeOK, [AnNext]_anVars, NEW w \in Workers, worker'[w].pc = "claim"
  PROVE  \/ /\ worker[w].pc = "claim"
            /\ worker'[w].todo = worker[w].todo
            /\ worker'[w].unseen = worker[w].unseen
            /\ UnitPasses \/ worker'[w].late = worker[w].late
         \/ /\ CronRead(w) /\ ~ worker'[w].late
            /\ worker'[w].todo = Batch
            /\ worker'[w].unseen = {c \in Batch : ~ HasRow(c)}
<1> DEFINE Same == /\ worker[w].pc = "claim"
                   /\ worker'[w].todo = worker[w].todo
                   /\ worker'[w].unseen = worker[w].unseen
                   /\ worker'[w].late = worker[w].late
<1>1. CASE worker'[w] = worker[w]
  BY <1>1
<1>2. AtRest.pc # "claim" /\ \A kind, todo : Analyzing(kind, todo).pc # "claim"
  BY DEF AtRest, Analyzing
<1>3. ASSUME NEW v \in Workers, Analyze(v) PROVE Same
  <2>1. CASE v # w
    BY <1>1, <1>3, <2>1 DEF AnTypeOK, Analyze, ReadAnalysis, ReadAnalysisThrows,
       FindFile, Extract, AnalysisFails, SaveAnalysis, SaveAnalysisFails, GoTo,
       ToSave, TurnOver
  <2>2. CASE v = w
    <3>1. ASSUME NEW pc \in {"file", "model"}, worker[w].pc \in {"read", "file"},
                 GoTo(w, pc)
          PROVE  FALSE
      <4>1. worker[w] \in [kind : {"run", "listener"},
                           pc : {"read", "file", "model"},
                           todo : SUBSET Cvs, late : BOOLEAN]
        BY <3>1, WorkerStateByPc
      <4>2. [worker[w] EXCEPT !.pc = pc].pc = pc
        BY <4>1
      <4> QED BY <3>1, <4>2 DEF GoTo, AnTypeOK
    <3>2. ~ TurnOver(w)
      BY <1>2 DEF TurnOver, AnTypeOK
    <3>3. \A result : ~ ToSave(w, result)
      BY DEF ToSave, AnTypeOK
    <3>4. worker' # [worker EXCEPT ![w] = AtRest]
      BY <1>2 DEF AnTypeOK
    <3> QED BY <1>3, <2>2, <3>1, <3>2, <3>3, <3>4
            DEF Analyze, ReadAnalysis, ReadAnalysisThrows, FindFile, Extract,
                AnalysisFails, SaveAnalysis, SaveAnalysisFails
  <2> QED BY <2>1, <2>2
<1>4. ASSUME NEW v \in Workers, CronClaim(v) \/ CronClaimFails(v) PROVE Same
  BY <1>1, <1>2, <1>4 DEF CronClaim, CronClaimFails, AnTypeOK
<1>5. ASSUME NEW v \in Workers, CronRead(v), v # w PROVE Same
  BY <1>1, <1>5 DEF CronRead, AnTypeOK
<1>6. CASE CronRead(w)
  <2> DEFINE new == {c \in Batch : ~ HasRow(c)}
             run == [kind |-> "run", pc |-> "claim", todo |-> Batch,
                     unseen |-> new, late |-> FALSE]
  <2>1. worker'[w] = IF Batch = {} THEN AtRest ELSE run
    BY <1>6 DEF CronRead, AnTypeOK
  <2>2. worker'[w] = run
    BY <1>2, <2>1
  <2>3. run.todo = Batch /\ run.unseen = new /\ ~ run.late
    OBVIOUS
  <2> HIDE DEF run
  <2>4. worker'[w].todo = Batch /\ worker'[w].unseen = new /\ ~ worker'[w].late
    BY <2>2, <2>3
  <2> QED BY <1>6, <2>4
<1>7. ASSUME NEW c \in Cvs, \/ UploadUnheard(c) \/ DeleteCv(c)
                            \/ \E v \in Workers : Upload(v, c)
      PROVE  Same
  BY <1>1, <1>2, <1>7 DEF UploadUnheard, DeleteCv, Upload, AnTypeOK
<1>8. CASE UnitPasses
  <2>1. worker[w] # AtRest
    BY <1>2, <1>8 DEF UnitPasses
  <2>2. worker'[w] = [worker[w] EXCEPT !.late = TRUE]
    BY <1>8, <2>1 DEF UnitPasses
  <2>3. /\ worker'[w].pc = worker[w].pc /\ worker'[w].todo = worker[w].todo
        /\ worker'[w].unseen = worker[w].unseen
    BY <2>2
  <2> QED BY <1>8, <2>3
<1>9. ~ Restart
  BY <1>2 DEF Restart
<1>10. CASE UNCHANGED anVars
  BY <1>1, <1>10 DEF anVars
<1> QED BY <1>3, <1>4, <1>5, <1>6, <1>7, <1>8, <1>9, <1>10 DEF AnNext

LEMMA ClaimsHaveRowsInductive ==
  AnTypeOK /\ ClaimsHaveRows /\ [AnNext]_anVars => ClaimsHaveRows'
<1> SUFFICES ASSUME AnTypeOK, ClaimsHaveRows, [AnNext]_anVars,
                    NEW w \in Workers, worker'[w].pc = "claim",
                    NEW c \in worker'[w].todo \ worker'[w].unseen
             PROVE  HasRow(c)'
  BY DEF ClaimsHaveRows
<1>1. CASE /\ worker[w].pc = "claim"
           /\ worker'[w].todo = worker[w].todo
           /\ worker'[w].unseen = worker[w].unseen
  <2>1. HasRow(c) /\ c \in Cvs
    BY <1>1, WorkerStateByPc DEF ClaimsHaveRows
  <2> QED BY <2>1, RowsStay
<1>2. CASE /\ CronRead(w) /\ worker'[w].todo = Batch
           /\ worker'[w].unseen = {d \in Batch : ~ HasRow(d)}
  <2>1. HasRow(c) /\ c \in Cvs
    BY <1>2 DEF Batch, Pending
  <2> QED BY <2>1, RowsStay
<1> QED BY <1>1, <1>2, ClaimingRuns

LEMMA AnTypesHold == AnSpec => [](AnTypeOK /\ ClaimsHaveRows)
<1>1. AnInit => AnTypeOK /\ ClaimsHaveRows
  <2> SUFFICES ASSUME AnInit PROVE AnTypeOK /\ ClaimsHaveRows
    OBVIOUS
  <2>1. ClaimsHaveRows
    BY DEF AnInit, ClaimsHaveRows, AtRest
  <2>2. phase \in 0 .. Period - 1 /\ restarts \in 0 .. MaxRestarts
    BY AnalysisAssumption DEF AnInit
  <2>3. AtRest \in WorkerState
    BY DEF WorkerState
  <2> QED BY <2>1, <2>2, <2>3 DEF AnInit, AnTypeOK
<1> QED BY <1>1, AnTypesInductive, ClaimsHaveRowsInductive, PTL DEF AnSpec

(* Listeners and runs hold what their stage says, rows are rows, and a     *)
(* worker that is not at rest has a CV to work on.                         *)
THEOREM AnalysisTypes == AnSpec => []AnTypeOK
  BY AnTypesHold, PTL

(* However a listener's save and a run's claim interleave, an analysis     *)
(* that has ended is never PENDING again.                                  *)
THEOREM ResultsAreNotTakenBack == AnSpec => NeverPendingAgain
<1> DEFINE A == \A c \in Cvs : HasRow(c) /\ analysis[c].status # "PENDING"
                  => analysis'[c].status # "PENDING"
<1>1. AnTypeOK /\ ClaimsHaveRows /\ [AnNext]_anVars => [A]_anVars
  <2> SUFFICES ASSUME AnTypeOK, ClaimsHaveRows, [AnNext]_anVars, NEW c \in Cvs,
                      HasRow(c), analysis[c].status # "PENDING"
               PROVE  analysis'[c].status # "PENDING"
    OBVIOUS
  <2>1. analysis[c] \in AnalysisRow
    BY DEF AnTypeOK, HasRow
  <2> QED BY <2>1, RowChanges, AgeOfRows
<1> QED BY <1>1, AnTypesHold, PTL DEF AnSpec, NeverPendingAgain

-----------------------------------------------------------------------------
(* One run at a time reads and claims when the cron's period is longer     *)
(* than a unit: its next time comes after the run has claimed.             *)

LEMMA OneRunClaimsInductive ==
  ASSUME Period > 1, AnTypeOK, OneRunClaims, [AnNext]_anVars
  PROVE  OneRunClaims'
<1>1. CASE UnitPasses
  <2>1. /\ ~ due /\ due' = (phase' = 0)
        /\ phase' = (phase + 1) % Period
        /\ \A w \in Workers : worker[w] # AtRest => ~ worker[w].late
    BY <1>1 DEF UnitPasses
  <2>2. ASSUME NEW w \in Workers, worker'[w].pc = "claim"
        PROVE  worker[w].pc = "claim" /\ phase' = 1 /\ worker'[w].late
    <3>1. worker[w] # AtRest /\ worker'[w] = [worker[w] EXCEPT !.late = TRUE]
      BY <1>1, <2>2 DEF UnitPasses, AtRest
    <3>2. worker[w].pc = "claim"
      BY <2>2, <3>1
    <3>3. phase = 0 /\ ~ worker[w].late
      BY <2>1, <3>1, <3>2 DEF OneRunClaims
    <3>4. worker[w] \in [kind : {"run"}, pc : {"claim"}, todo : SUBSET Cvs,
                         unseen : SUBSET Cvs, late : BOOLEAN]
      BY <3>2, WorkerStateByPc
    <3>5. worker'[w].late
      BY <3>1, <3>4
    <3> QED BY <2>1, <3>2, <3>3, <3>5, NextPhase DEF AnTypeOK
  <2>3. due' => phase' = 0
    BY <2>1
  <2>4. ASSUME NEW w \in Workers, worker'[w].pc = "claim",
               NEW v \in Workers, worker'[v].pc = "claim"
        PROVE  v = w /\ ~ due'
    BY <2>2, <2>3, <2>4 DEF OneRunClaims
  <2> QED BY <2>2, <2>3, <2>4 DEF OneRunClaims
<1>2. CASE ~ UnitPasses
  <2>1. phase' = phase
    BY <1>2 DEF AnNext, Analyze, ReadAnalysis, ReadAnalysisThrows, FindFile,
       Extract, AnalysisFails, SaveAnalysis, SaveAnalysisFails, CronRead,
       CronClaim, CronClaimFails, Upload, UploadUnheard, DeleteCv, Restart, anVars
  <2>2. due' = due \/ ~ due'
    BY <1>2 DEF AnNext, Analyze, ReadAnalysis, ReadAnalysisThrows, FindFile,
       Extract, AnalysisFails, SaveAnalysis, SaveAnalysisFails, CronRead,
       CronClaim, CronClaimFails, Upload, UploadUnheard, DeleteCv, Restart, anVars
  <2>3. ASSUME NEW r \in Workers, CronRead(r)
        PROVE  OneRunClaims'
    <3>1. /\ due /\ ~ due' /\ phase = 0
          /\ \A w \in Workers : worker[w].pc # "claim"
      BY <2>3 DEF CronRead, OneRunClaims
    <3>2. \A w \in Workers : worker'[w].pc = "claim" => w = r /\ ~ worker'[w].late
      BY <2>3, <3>1, ClaimingRuns DEF CronRead, AnTypeOK
    <3>3. \A w \in Workers : worker'[w].pc = "claim" =>
            \A v \in Workers : worker'[v].pc = "claim" => v = w
      BY <3>2
    <3> QED BY <2>1, <3>1, <3>2, <3>3 DEF OneRunClaims
  <2>4. CASE \A r \in Workers : ~ CronRead(r)
    <3>1. \A w \in Workers : worker'[w].pc = "claim" =>
            worker[w].pc = "claim" /\ worker'[w].late = worker[w].late
      BY <1>2, <2>4, ClaimingRuns
    <3> QED BY <2>1, <2>2, <3>1 DEF OneRunClaims
  <2> QED BY <2>3, <2>4
<1> QED BY <1>1, <1>2

LEMMA ClaimsAreCurrentInductive ==
  ASSUME AnTypeOK, ClaimsHaveRows, OneRunClaims, ClaimsAreCurrent,
         [AnNext]_anVars
  PROVE  ClaimsAreCurrent'
<1> SUFFICES ASSUME NEW w \in Workers, worker'[w].pc = "claim",
                    NEW c \in worker'[w].todo \ worker'[w].unseen
             PROVE  analysis'[c].claim \in {Stale, Unclaimed}
  BY DEF ClaimsAreCurrent
<1>1. CASE /\ CronRead(w) /\ worker'[w].todo = Batch
           /\ worker'[w].unseen = {d \in Batch : ~ HasRow(d)}
  <2>1. c \in Pending /\ HasRow(c)
    BY <1>1 DEF Batch
  <2>2. analysis' = analysis
    BY <1>1 DEF CronRead
  <2> QED BY <2>1, <2>2 DEF Pending, Claimable
<1>2. CASE /\ worker[w].pc = "claim"
           /\ worker'[w].todo = worker[w].todo
           /\ worker'[w].unseen = worker[w].unseen
  <2>1. /\ analysis[c].claim \in {Stale, Unclaimed}
        /\ HasRow(c) /\ c \in Cvs
    BY <1>2, WorkerStateByPc DEF ClaimsAreCurrent, ClaimsHaveRows
  <2>2. analysis[c] \in AnalysisRow
    BY <2>1 DEF AnTypeOK, HasRow
  <2>3. \A v \in Workers : ~ CronClaim(v)
    <3> SUFFICES ASSUME NEW v \in Workers, CronClaim(v) PROVE FALSE
      OBVIOUS
    <3>1. v = w
      BY <1>2 DEF CronClaim, OneRunClaims
    <3> QED BY <3>1 DEF CronClaim, Analyzing, AnTypeOK
  <2> QED BY <2>1, <2>2, <2>3, RowChanges, AgeOfRows
<1> QED BY <1>1, <1>2, ClaimingRuns

(* A run takes over a row only when nobody claims it or its claim is past  *)
(* the threshold, although it reads the claims and writes its own in two   *)
(* queries, as long as the cron's period is longer than one unit.          *)
THEOREM ClaimsAreRespected ==
  ASSUME Period > 1
  PROVE  AnSpec => FreshClaimIsRespected
<1> DEFINE A == \A c \in Cvs :
                  HasRow(c) /\ analysis[c].claim # 0 /\ analysis'[c].claim = 0
                    => analysis[c].claim \in {Stale, Unclaimed}
           Inv == AnTypeOK /\ ClaimsHaveRows /\ OneRunClaims /\ ClaimsAreCurrent
<1>1. AnInit => OneRunClaims /\ ClaimsAreCurrent
  BY DEF AnInit, OneRunClaims, ClaimsAreCurrent, AtRest
<1>2. Inv /\ [AnNext]_anVars => OneRunClaims' /\ ClaimsAreCurrent'
  BY OneRunClaimsInductive, ClaimsAreCurrentInductive
<1>3. Inv /\ [AnNext]_anVars => [A]_anVars
  <2> SUFFICES ASSUME Inv, [AnNext]_anVars, NEW c \in Cvs, HasRow(c),
                      analysis[c].claim # 0, analysis'[c].claim = 0
               PROVE  analysis[c].claim \in {Stale, Unclaimed}
    OBVIOUS
  <2>1. analysis[c] \in AnalysisRow
    BY DEF AnTypeOK, HasRow
  <2>2. PICK w \in Workers : /\ CronClaim(w)
                             /\ c \in worker[w].todo \ worker[w].unseen
    BY <2>1, RowChanges, AgeOfRows
  <2> QED BY <2>2 DEF CronClaim, ClaimsAreCurrent
<1> QED BY <1>1, <1>2, <1>3, AnTypesHold, PTL DEF AnSpec, FreshClaimIsRespected
=============================================================================
