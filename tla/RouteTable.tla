----------------------------- MODULE RouteTable -----------------------------
(***************************************************************************)
(* The HTTP routes of the controllers, one definition per controller, and  *)
(* the roles and permissions prisma/seed.ts installs.                      *)
(*                                                                         *)
(* A route is the guards in front of it and the command, query or service  *)
(* call its method makes; request and response shapes are left out.  A     *)
(* public route skips JwtAuthGuard, a guarded one also needs a permission. *)
(***************************************************************************)
EXTENDS Naturals, Sequences

Public(at, runs) ==
  [at |-> at, runs |-> runs, public |-> TRUE, needs |-> {}]
SignedIn(at, runs) ==
  [at |-> at, runs |-> runs, public |-> FALSE, needs |-> {}]
Guarded(at, permission, runs) ==
  [at |-> at, runs |-> runs, public |-> FALSE, needs |-> {permission}]

-----------------------------------------------------------------------------
AuthRoutes == {
  Public("POST auth/register", "register"),
  Public("POST auth/login", "login"),
  Public("POST auth/verify", "verifyEmail"),
  Public("POST auth/forgot-password", "forgotPassword"),
  Public("POST auth/reset-password", "resetPassword"),
  SignedIn("POST auth/change-password", "changePassword"),
  SignedIn("POST auth/logout", "logout"),
  SignedIn("POST auth/logout-all", "logoutAll"),
  Public("POST auth/refresh", "refreshTokens") }

SocialRoutes == {
  Public("GET auth/google", "redirect to the provider"),
  Public("GET auth/google/callback", "socialLogin"),
  Public("GET auth/facebook", "redirect to the provider"),
  Public("GET auth/facebook/callback", "socialLogin"),
  Public("POST auth/social/exchange", "exchangeSocialCode") }

UserRoutes == {
  Guarded("GET users/me", "profile:read:own", "GetMyProfile"),
  Guarded("PATCH users/profile", "profile:update:own", "UpdateProfile") }

UserAdminRoutes == {
  Guarded("GET admin/users", "user:read", "AdminListUsers"),
  Guarded("PATCH admin/users/:id", "user:update", "AdminUpdateUserStatus") }

RbacAdminRoutes == {
  Guarded("GET admin/roles", "role:permission:manage", "ListRoles"),
  Guarded("GET admin/roles/:id", "role:permission:manage", "GetRole"),
  Guarded("GET admin/permissions", "role:permission:manage", "ListPermissions"),
  Guarded("GET admin/roles/:id/permissions", "role:permission:manage",
          "GetRolePermissions"),
  Guarded("PUT admin/roles/:id/permissions", "role:permission:manage",
          "UpdateRolePermissions") }

CompanyRoutes == {
  Guarded("POST companies", "company:create", "CreateCompany"),
  Public("GET companies", "ListCompanies"),
  Public("GET companies/:id", "GetCompany"),
  Guarded("PATCH companies/:id", "company:update", "UpdateCompany"),
  Guarded("DELETE companies/:id", "company:delete", "DeleteCompany") }

CategoryRoutes == {
  Guarded("POST categories", "category:create", "CreateCategory"),
  Public("GET categories", "ListCategories"),
  Guarded("PATCH categories/:id", "category:update", "UpdateCategory"),
  Guarded("DELETE categories/:id", "category:delete", "DeleteCategory") }

SkillRoutes == {
  Guarded("POST skills", "skill:create", "CreateSkill"),
  Public("GET skills", "ListSkills"),
  Guarded("PATCH skills/:id", "skill:update", "UpdateSkill"),
  Guarded("DELETE skills/:id", "skill:delete", "DeleteSkill") }

JobRoutes == {
  Guarded("POST jobs", "job:create", "CreateJob"),
  Public("GET jobs", "ListJobs"),
  Guarded("GET jobs/mine", "job:read:own", "ListMyJobs"),
  Public("GET jobs/:id", "GetJob"),
  Guarded("PATCH jobs/:id", "job:update", "UpdateJob"),
  Guarded("DELETE jobs/:id", "job:delete", "DeleteJob"),
  Guarded("PATCH jobs/:id/close", "job:update", "CloseJob"),
  Guarded("PATCH jobs/:id/reopen", "job:update", "ReopenJob") }

AiRoutes == {
  Guarded("POST jobs/:id/matching-candidates", "job:match:candidates",
          "findMatchingCandidates"),
  Guarded("POST jobs/:id/candidates/:id/screening-questions",
          "candidate:screen", "askQuestion"),
  Guarded("POST jobs/skill-suggestions", "job:create", "suggestSkills"),
  Guarded("POST jobs/draft", "job:create", "draftJob") }

ApplicationRoutes == {
  Guarded("POST job-applications", "application:create", "ApplyJob"),
  Guarded("GET job-applications/my-applications", "application:read:own",
          "ListMyApplications"),
  Guarded("GET job-applications/job/:id", "application:read",
          "ListApplicationsByJob"),
  Guarded("GET job-applications/job/:id/stats", "application:read",
          "GetJobStats"),
  Guarded("GET job-applications/:id/history", "application:read:own",
          "GetApplicationStatusHistory"),
  Guarded("PATCH job-applications/:id/withdraw", "application:withdraw:own",
          "WithdrawApplication"),
  Guarded("PATCH job-applications/:id/status", "application:update",
          "UpdateApplicationStatus") }

CvRoutes == {
  Guarded("POST cvs", "cv:create", "CreateCv"),
  Guarded("GET cvs", "cv:read:own", "ListMyCvs"),
  SignedIn("GET cvs/:id", "GetCv"),
  SignedIn("GET cvs/:id/download", "DownloadCv"),
  Guarded("PATCH cvs/:id", "cv:update:own", "UpdateCv"),
  Guarded("PATCH cvs/:id/publish", "cv:update:own", "PublishCv"),
  Guarded("DELETE cvs/:id", "cv:delete:own", "DeleteCv") }

InterviewRoutes == {
  Guarded("POST interviews", "interview:create", "ScheduleInterview"),
  Guarded("PATCH interviews/:id", "interview:update", "RescheduleInterview"),
  Guarded("PATCH interviews/:id/cancel", "interview:update",
          "CancelInterview"),
  Guarded("PATCH interviews/:id/complete", "interview:update",
          "CompleteInterview"),
  Guarded("PATCH interviews/:id/no-show", "interview:update",
          "MarkInterviewNoShow"),
  Guarded("GET interviews/application/:id", "interview:read",
          "ListInterviewsByApplication") }

ConversationRoutes == {
  Guarded("POST conversations", "conversation:create", "CreateConversation"),
  SignedIn("GET conversations", "ListMyConversations"),
  SignedIn("GET conversations/:id", "GetConversation"),
  SignedIn("GET conversations/:id/messages", "ListMessages"),
  SignedIn("POST conversations/:id/messages", "CreateMessage"),
  SignedIn("POST conversations/:id/read", "MarkConversationRead") }

MessageRoutes == {
  SignedIn("PATCH messages/:id", "EditMessage"),
  SignedIn("DELETE messages/:id", "DeleteMessage") }

NotificationRoutes == {
  SignedIn("GET notifications", "ListMyNotifications"),
  SignedIn("PATCH notifications/:id/read", "MarkAsRead"),
  SignedIn("PATCH notifications/read-all", "MarkAllAsRead") }

BookmarkRoutes == {
  Guarded("POST bookmarks/toggle/:id", "bookmark:manage", "ToggleBookmark"),
  Guarded("GET bookmarks", "bookmark:read", "ListBookmarks") }

SavedSearchRoutes == {
  Guarded("POST saved-searches", "saved-search:create", "CreateSavedSearch"),
  Guarded("GET saved-searches", "saved-search:read", "ListMySavedSearches"),
  Guarded("DELETE saved-searches/:id", "saved-search:delete",
          "DeleteSavedSearch") }

FileRoutes == { SignedIn("POST files/upload", "uploadFile") }

HealthRoutes == { Public("GET healthcheck", "ping the database") }

Routes ==
  UNION {AuthRoutes, SocialRoutes, UserRoutes, UserAdminRoutes,
         RbacAdminRoutes, CompanyRoutes, CategoryRoutes, SkillRoutes,
         JobRoutes, AiRoutes, ApplicationRoutes, CvRoutes, InterviewRoutes,
         ConversationRoutes, MessageRoutes, NotificationRoutes,
         BookmarkRoutes, SavedSearchRoutes, FileRoutes, HealthRoutes}

-----------------------------------------------------------------------------
(* ROLES, in the order the seed goes through them.                         *)
SeedRoles == <<"ADMIN", "RECRUITER", "CANDIDATE">>

(* PERMISSIONS, in the order the seed goes through them.                   *)
SeedPermissions == <<
  "job:create", "job:update", "job:delete", "job:read:own",
  "job:match:candidates", "candidate:screen",
  "company:create", "company:update", "company:delete",
  "category:create", "category:update", "category:delete",
  "skill:create", "skill:update", "skill:delete",
  "saved-search:create", "saved-search:read", "saved-search:delete",
  "bookmark:manage", "bookmark:read", "user:read", "user:update",
  "application:create", "application:read", "application:read:own",
  "application:update", "application:withdraw:own",
  "cv:create", "cv:read:own", "cv:update:own", "cv:delete:own",
  "conversation:create",
  "interview:create", "interview:update", "interview:read",
  "profile:read:own", "profile:update:own", "role:permission:manage" >>

(* ROLE_PERMISSIONS.                                                       *)
SeedGrants ==
  [ADMIN |-> <<
     "category:create", "category:update", "category:delete",
     "skill:create", "skill:update", "skill:delete",
     "user:read", "user:update", "role:permission:manage",
     "profile:read:own", "profile:update:own" >>,
   RECRUITER |-> <<
     "job:create", "job:update", "job:delete", "job:read:own",
     "job:match:candidates", "candidate:screen",
     "company:create", "company:update", "company:delete",
     "application:read", "application:read:own", "application:update",
     "conversation:create",
     "interview:create", "interview:update", "interview:read",
     "profile:read:own", "profile:update:own" >>,
   CANDIDATE |-> <<
     "saved-search:create", "saved-search:read", "saved-search:delete",
     "bookmark:manage", "bookmark:read",
     "application:create", "application:read:own",
     "application:withdraw:own",
     "cv:create", "cv:read:own", "cv:update:own", "cv:delete:own",
     "interview:read", "profile:read:own", "profile:update:own" >>]

-----------------------------------------------------------------------------
Members(s) == {s[i] : i \in 1..Len(s)}

(* With the seeded grants no route is out of everybody's reach: a route    *)
(* either needs no permission or some seeded role has what it needs.       *)
ASSUME EveryRouteIsServed ==
  \A r \in Routes :
    \E role \in Members(SeedRoles) : r.needs \subseteq Members(SeedGrants[role])

(* "Only permissions the application actually has controller endpoints     *)
(* for" (seed.ts): each one guards a route, and each grant is of one.      *)
ASSUME EveryPermissionGuards ==
  /\ Members(SeedPermissions) = UNION {r.needs : r \in Routes}
  /\ \A role \in Members(SeedRoles) :
       Members(SeedGrants[role]) \subseteq Members(SeedPermissions)
=============================================================================
