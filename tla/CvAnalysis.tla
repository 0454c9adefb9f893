------------------------------ MODULE CvAnalysis ------------------------------
(***************************************************************************)
(* The analysis of uploaded CVs in the ai component.  An upload emits      *)
(* cv.uploaded and a listener analyses the CV in the background; every ten *)
(* minutes AnalyzePendingCvsCron claims the CVs that were left without an  *)
(* analysis and works through them one after another.  Both end in         *)
(* analyzeCv, which saves the whole row of cv_analyses, whoever wrote it   *)
(* meanwhile.                                                              *)
(*                                                                         *)
(* CVs are numbered in the order of createdAt.  Time passes in units of    *)
(* which the cron's period has Period; a claim older than StaleAfter units *)
(* is stale.  A unit is longer than one turn of the loop, so that a turn   *)
(* sees at most one of them begin.  What the model extracts is left out.   *)
(***************************************************************************)
EXTENDS Naturals, FiniteSets

CONSTANTS
  Uploads,                      \* bound: the number of CVs uploaded
  Unreadable,                   \* CVs no analysis succeeds on (scans, legacy .doc)
  Workers,                      \* slots for listeners and cron runs in flight
  BatchSize,                    \* AI_ANALYSIS_BATCH_SIZE
  Period,                       \* the cron's period
  StaleAfter,                   \* AI_ANALYSIS_CLAIM_STALE_MINUTES
  NoRow,                        \* no row of cv_analyses
  MaxRestarts                   \* bound on restarts of the process

Cvs == 1 .. Uploads

ASSUME AnalysisAssumption ==
  /\ Uploads \in Nat /\ Unreadable \subseteq Cvs
  /\ BatchSize \in Nat \ {0} /\ Period \in Nat \ {0} /\ StaleAfter \in Nat
  /\ MaxRestarts \in Nat

VARIABLES
  cv,                           \* [Cvs -> "absent", "live" or "deleted"]
  analysis,                     \* [Cvs -> row of cv_analyses, or NoRow]
  worker,                       \* [Workers -> what a listener or a run holds]
  phase, due,                   \* units since the cron's time; has it yet to fire
  restarts

anVars == <<cv, analysis, worker, phase, due, restarts>>

Stale == StaleAfter + 1
Unclaimed == Stale + 1
(* claim: the age of processingStartedAt, or Unclaimed when it is null.    *)
AnalysisRow == [status : {"PENDING", "COMPLETED", "FAILED"}, claim : 0 .. Unclaimed]
ASSUME NoAnalysisAssumption == NoRow \notin AnalysisRow

AtRest == [pc |-> "idle"]
WorkerState ==
  {AtRest}
  \cup [kind : {"run"}, pc : {"claim"}, todo : SUBSET Cvs, unseen : SUBSET Cvs,
        late : BOOLEAN]
  \cup [kind : {"run", "listener"}, pc : {"read", "file", "model"},
        todo : SUBSET Cvs, late : BOOLEAN]
  \cup [kind : {"run", "listener"}, pc : {"save"}, todo : SUBSET Cvs,
        late : BOOLEAN, result : {"COMPLETED", "FAILED"}]

Analyzing(kind, todo) == [kind |-> kind, pc |-> "read", todo |-> todo, late |-> FALSE]

AnInit ==
  /\ cv = [c \in Cvs |-> "absent"]
  /\ analysis = [c \in Cvs |-> NoRow]
  /\ worker = [w \in Workers |-> AtRest]
  /\ phase = 0 /\ due = FALSE /\ restarts = 0

HasRow(c) == analysis[c] # NoRow
Completed(c) == HasRow(c) /\ analysis[c].status = "COMPLETED"

-----------------------------------------------------------------------------
(* What the cv component does, and the listener's start                    *)

NextUpload(c) == cv[c] = "absent" /\ \A d \in Cvs : d < c => cv[d] # "absent"

Upload(w, c) ==
  /\ NextUpload(c)
  /\ worker[w] = AtRest
  /\ cv' = [cv EXCEPT ![c] = "live"]
  /\ worker' = [worker EXCEPT ![w] = Analyzing("listener", {c})]
  /\ UNCHANGED <<analysis, phase, due, restarts>>

(* The process stops before the event, or the CV is older than the feature.*)
UploadUnheard(c) ==
  /\ NextUpload(c)
  /\ cv' = [cv EXCEPT ![c] = "live"]
  /\ UNCHANGED <<analysis, worker, phase, due, restarts>>

DeleteCv(c) ==
  /\ cv[c] = "live"
  /\ cv' = [cv EXCEPT ![c] = "deleted"]
  /\ UNCHANGED <<analysis, worker, phase, due, restarts>>

-----------------------------------------------------------------------------
(* CvAnalysisService.analyzeCv, on the CV whose turn it is                 *)

(* Candidates come oldest first.                                           *)
Oldest(S) == CHOOSE c \in S : \A d \in S : c <= d
Turn(w) == Oldest(worker[w].todo)

TurnOver(w) ==
  LET rest == worker[w].todo \ {Turn(w)} IN
    worker' = [worker EXCEPT ![w] =
                 IF rest = {} THEN AtRest ELSE Analyzing(worker[w].kind, rest)]

GoTo(w, pc) == worker' = [worker EXCEPT ![w].pc = pc]

ToSave(w, result) ==
  worker' = [worker EXCEPT ![w] =
    [kind |-> @.kind, pc |-> "save", todo |-> @.todo, late |-> @.late,
     result |-> result]]

(* findByCvId stands outside the try.                                      *)
ReadAnalysis(w) ==
  /\ worker[w].pc = "read"
  /\ GoTo(w, "file")
  /\ UNCHANGED <<cv, analysis, phase, due, restarts>>

(* A rejected findByCvId ends the listener, or the run with its batch.     *)
ReadAnalysisThrows(w) ==
  /\ worker[w].pc = "read"
  /\ worker' = [worker EXCEPT ![w] = AtRest]
  /\ UNCHANGED <<cv, analysis, phase, due, restarts>>

(* findCvFileInfo: a deleted CV is skipped, and its claim stays.           *)
FindFile(w) ==
  /\ worker[w].pc = "file"
  /\ IF cv[Turn(w)] = "live" THEN GoTo(w, "model") ELSE TurnOver(w)
  /\ UNCHANGED <<cv, analysis, phase, due, restarts>>

(* Download, extraction, the model's answer and its validation; whichever  *)
(* of these or of the lookup above fails, the catch block saves FAILED.    *)
Extract(w) ==
  /\ worker[w].pc = "model"
  /\ Turn(w) \notin Unreadable
  /\ ToSave(w, "COMPLETED")
  /\ UNCHANGED <<cv, analysis, phase, due, restarts>>

AnalysisFails(w) ==
  /\ worker[w].pc = "model"
  /\ ToSave(w, "FAILED")
  /\ UNCHANGED <<cv, analysis, phase, due, restarts>>

(* markCompleted or markFailed, and the upsert of the whole row.           *)
SaveAnalysis(w) ==
  /\ worker[w].pc = "save"
  /\ analysis' = [analysis EXCEPT ![Turn(w)] =
                    [status |-> worker[w].result, claim |-> Unclaimed]]
  /\ TurnOver(w)
  /\ UNCHANGED <<cv, phase, due, restarts>>

(* The save is rejected: the catch block saves FAILED instead, and         *)
(* swallows it when that is rejected as well.                              *)
SaveAnalysisFails(w) ==
  /\ worker[w].pc = "save"
  /\ IF worker[w].result = "COMPLETED" THEN ToSave(w, "FAILED") ELSE TurnOver(w)
  /\ UNCHANGED <<cv, analysis, phase, due, restarts>>

-----------------------------------------------------------------------------
(* AnalyzePendingCvsCron.handle and claimPendingCvIds                      *)

(* Mutant: the claim is not looked at.                                     *)
Claimable_Always(c) == analysis[c].status \in {"PENDING", "FAILED"}

(* Mutant: a claim is never given up.                                      *)
Claimable_NeverStale(c) ==
  analysis[c].status \in {"PENDING", "FAILED"} /\ analysis[c].claim = Unclaimed

Claimable(c) ==
  analysis[c].status \in {"PENDING", "FAILED"} /\ analysis[c].claim \in {Stale, Unclaimed}

Pending == {c \in Cvs : cv[c] = "live" /\ (HasRow(c) => Claimable(c))}

(* orderBy createdAt, take limit                                           *)
Batch == {c \in Pending : Cardinality({d \in Pending : d < c}) < BatchSize}

CronRead(w) ==
  /\ due
  /\ worker[w] = AtRest
  /\ due' = FALSE
  /\ worker' = [worker EXCEPT ![w] =
       IF Batch = {} THEN AtRest
       ELSE [kind |-> "run", pc |-> "claim", todo |-> Batch,
             unseen |-> {c \in Batch : ~ HasRow(c)}, late |-> FALSE]]
  /\ UNCHANGED <<cv, analysis, phase, restarts>>

(* Mutant: a claim makes the row PENDING whatever it has become.           *)
Claimed_Pending(row) == [row EXCEPT !.status = "PENDING", !.claim = 0]

(* updateMany sets processingStartedAt alone.                              *)
Claimed(row) == [row EXCEPT !.claim = 0]

(* One transaction: it fails as a whole when a row it creates exists.      *)
CronClaim(w) ==
  /\ worker[w].pc = "claim"
  /\ \A c \in worker[w].unseen : ~ HasRow(c)
  /\ analysis' = [c \in Cvs |->
       IF c \notin worker[w].todo THEN analysis[c]
       ELSE IF c \in worker[w].unseen THEN [status |-> "PENDING", claim |-> 0]
       ELSE Claimed(analysis[c])]
  /\ worker' = [worker EXCEPT ![w] = Analyzing("run", worker[w].todo)]
  /\ UNCHANGED <<cv, phase, due, restarts>>

CronClaimFails(w) ==
  /\ worker[w].pc = "claim"
  /\ worker' = [worker EXCEPT ![w] = AtRest]
  /\ UNCHANGED <<cv, analysis, phase, due, restarts>>

-----------------------------------------------------------------------------
(* Time and restarts                                                       *)

Aged(row) == [row EXCEPT !.claim = IF @ < Stale THEN @ + 1 ELSE @]

(* A unit begins: the cron has fired when it was due, and no turn lasts    *)
(* into a second unit.                                                     *)
UnitPasses ==
  /\ ~ due
  /\ \A w \in Workers : worker[w] # AtRest => ~ worker[w].late
  /\ phase' = (phase + 1) % Period
  /\ due' = (phase' = 0)
  /\ worker' = [w \in Workers |->
       IF worker[w] = AtRest THEN AtRest ELSE [worker[w] EXCEPT !.late = TRUE]]
  /\ analysis' = [c \in Cvs |-> IF HasRow(c) THEN Aged(analysis[c]) ELSE NoRow]
  /\ UNCHANGED <<cv, restarts>>

Restart ==
  /\ restarts < MaxRestarts
  /\ restarts' = restarts + 1
  /\ worker' = [w \in Workers |-> AtRest]
  /\ due' = FALSE
  /\ UNCHANGED <<cv, analysis, phase>>

Analyze(w) ==
  \/ ReadAnalysis(w) \/ ReadAnalysisThrows(w)
  \/ FindFile(w) \/ Extract(w) \/ AnalysisFails(w)
  \/ SaveAnalysis(w) \/ SaveAnalysisFails(w)

AnNext ==
  \/ \E c \in Cvs : UploadUnheard(c) \/ DeleteCv(c)
  \/ \E w \in Workers, c \in Cvs : Upload(w, c)
  \/ \E w \in Workers : Analyze(w) \/ CronRead(w) \/ CronClaim(w) \/ CronClaimFails(w)
  \/ UnitPasses
  \/ Restart

AnSpec == AnInit /\ [][AnNext]_anVars

(* Awaits end, time passes and the cron fires; no query fails for ever     *)
(* and, on a CV that can be read, neither does the provider.               *)
AnFairness ==
  /\ WF_anVars(UnitPasses) /\ WF_anVars(\E w \in Workers : CronRead(w))
  /\ \A w \in Workers : WF_anVars(Analyze(w) \/ CronClaim(w) \/ CronClaimFails(w))
  /\ SF_anVars(\E w \in Workers : CronClaim(w))
  /\ \A c \in Cvs : SF_anVars(\E w \in Workers : ReadAnalysis(w) /\ Turn(w) = c)
  /\ \A c \in Cvs \ Unreadable :
       /\ SF_anVars(\E w \in Workers : Extract(w) /\ Turn(w) = c)
       /\ SF_anVars(\E w \in Workers : SaveAnalysis(w) /\ Turn(w) = c
                                       /\ worker[w].result = "COMPLETED")

AnFairSpec == AnSpec /\ AnFairness

-----------------------------------------------------------------------------
(* Properties                                                              *)

AnTypeOK ==
  /\ cv \in [Cvs -> {"absent", "live", "deleted"}]
  /\ analysis \in [Cvs -> AnalysisRow \cup {NoRow}]
  /\ worker \in [Workers -> WorkerState]
  /\ \A w \in Workers : worker[w] # AtRest => worker[w].todo # {}
  /\ phase \in 0 .. Period - 1 /\ due \in BOOLEAN /\ restarts \in 0 .. MaxRestarts

(* Although candidates are read and claimed in two queries, a run takes    *)
(* over a row only when nobody claims it or the claim is past the          *)
(* threshold (analyze-pending-cvs.cron.ts 14-18).                          *)
FreshClaimIsRespected ==
  [][\A c \in Cvs : HasRow(c) /\ analysis[c].claim # 0 /\ analysis'[c].claim = 0
       => analysis[c].claim \in {Stale, Unclaimed}]_anVars

(* A claim that comes after a listener's save does not take the result     *)
(* back: a CV once analysed is at worst FAILED again, never PENDING.       *)
NeverPendingAgain ==
  [][\A c \in Cvs : HasRow(c) /\ analysis[c].status # "PENDING"
       => analysis'[c].status # "PENDING"]_anVars

(* The cron is a safety net: a CV that can be read is analysed in the end  *)
(* unless it is deleted, whatever events, claims and runs were lost.       *)
EventuallyAnalyzed ==
  \A c \in Cvs \ Unreadable : cv[c] = "live" ~> (Completed(c) \/ cv[c] = "deleted")
=============================================================================
