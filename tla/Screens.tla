------------------------------ MODULE Screens ------------------------------
(***************************************************************************)
(* The pages and dialogs of the web client (apps/web/src/routes) as far as  *)
(* the query cache is concerned: which queries a component keeps, which     *)
(* calls it offers to whom, and which cached queries it has fetched again   *)
(* afterwards.  A query is named by the first part of its key and the call  *)
(* that answers it.  Layout, forms and wording are left out.                *)
(***************************************************************************)
EXTENDS Api

Screen(asks, does) == [asks |-> asks, does |-> does]

\* useQuery: the roles for which it is enabled
Ask(key, call, roles) == [key |-> key, call |-> call, roles |-> roles]

\* A call offered to these roles that marks these keys when it has succeeded
Do(call, roles, marks) ==
    [call |-> call, roles |-> roles, marks |-> marks, settled |-> FALSE, shows |-> "nothing"]

\* useMutation with onMutate: shown in this query at once, marked whatever comes of it
Shown(call, roles, key, marks) ==
    [Do(call, roles, marks) EXCEPT !.settled = TRUE, !.shows = key]

Each(calls, roles, marks) == {Do(c, roles, marks) : c \in calls}

\* invalidateQueries() without a key
Everything == {"*"}
Marks(marks, key) == key \in marks \/ marks = Everything

-----------------------------------------------------------------------------
(* Team: the pages of everybody *)

Dashboard ==
    Screen({Ask("account", "account", Everybody),
            Ask("vacation-balance", "vacationBalance", Everybody),
            Ask("violations", "violations", Everybody),
            Ask("requests", "listRequests", Everybody),
            Ask("time-entries", "timeEntries", Everybody)}, {})

Timer ==
    Screen({Ask("time-entries", "timeEntries", Everybody),
            Ask("daily-block-option", "dailyBlockOption", Everybody),
            Ask("violations", "violations", Everybody),
            Ask("bookable-projects", "bookableProjects", Everybody)},
           {Shown("clockIn", Everybody, "time-entries", {"time-entries"}),
            Shown("clockOut", Everybody, "time-entries", {"time-entries"})})

\* The dialogs that BookingPage opens, with the onSaved it gives to each
EntryEditDialog == Screen({}, {Do("updateTimeEntry", Everybody, {"time-entries"})})
SplitEntryDialog == Screen({}, {Do("splitTimeEntry", Everybody, {"time-entries"})})
BookProjectDialog == Screen({}, {Do("bookProjectRange", Everybody, {"time-entries"})})

DailyBlockDialog ==
    Screen({}, {Do("dailyBlock", Everybody, {"time-entries", "account", "violations"})})

TerminalScan == Screen({}, {Do("bookAtTerminal", Everybody, {"time-entries", "account"})})

CalendarOfRequests ==
    Screen({Ask("requests", "listRequests", Everybody),
            Ask("absences", "absences", Everybody)}, {})

OwnRequests == Screen({Ask("requests", "listRequests", Everybody)}, {})

\* Its upload belongs to a request that no query knows yet.
NewRequestForm ==
    Screen({Ask("employee-directory", "employeeDirectory", Everybody),
            Ask("vacation-balance", "vacationBalance", Everybody)},
           Each({"createRequest", "createVacationRequest"}, Everybody, {"requests"}))

AttachmentsList ==
    Screen({Ask("attachments", "listAttachments", Everybody)},
           {Do("deleteAttachment", Everybody, {"attachments"})})

SubstituteRow ==
    Screen({Ask("requests", "listRequests", Everybody)},
           Each({"substituteAccept", "substituteDecline"}, Everybody, {"requests"}))

AbsencesList ==
    Screen({Ask("absences", "absences", Everybody), Ask("employees", "employees", Leaders)},
           {Do("deleteAbsence", Everybody, {"absences"})})

NewAbsenceForm == Screen({}, {Do("createAbsence", Everybody, {"absences"})})

-----------------------------------------------------------------------------
(* Team: the pages of managers and administrators *)

AdminRequests ==
    Screen({Ask("requests", "listRequests", Leaders)}, {})

RequestRow ==
    Screen({}, Each({"managerApprove", "managerReject", "returnRequest"}, Leaders, {"requests"})
               \cup Each({"hrConfirm", "hrReject"}, Hr, {"requests"}))

BulkConfirmDialog ==
    Screen({}, Each({"bulkApproveRequests", "bulkRejectRequests"}, Leaders, {"requests"}))

AuditTrail ==
    Screen({Ask("request", "getRequest", Leaders),
            Ask("request-events", "getRequestEvents", Leaders)}, {})

AdminProjects ==
    Screen({Ask("projects", "projects", Leaders),
            Ask("employee-directory", "employeeDirectory", Leaders),
            Ask("project-assignments", "projectAssignments", Leaders)}, {})

ProjectCard == Screen({}, {Do("deleteProject", Leaders, {"projects"})})
ServiceOrderList == Screen({}, {Do("saveOrder", Leaders, {"projects"})})
ServiceOrderRow == Screen({}, Each({"saveOrder", "deleteOrder"}, Leaders, {"projects"}))
ProjectEditor == Screen({}, {Do("saveProject", Leaders, {"projects"})})
ProjectReportDialog == Screen({Ask("project-report", "projectReport", Leaders)}, {})

AssignmentMatrix ==
    Screen({}, {Shown(c, Leaders, "project-assignments", {"project-assignments", "projects"}) :
                    c \in {"assignProject", "unassignProject"}})

AdminWorkingTimes ==
    Screen({Ask("employees", "workingTimeReportEmployees", Hr),
            Ask("working-time-report", "workingTimeReport", Hr)}, {})

AdminSchedules ==
    Screen({Ask("work-schedules", "workSchedules", Hr), Ask("employees", "employees", Hr)}, {})

ScheduleCard ==
    Screen({}, Each({"deleteWorkSchedule", "bulkAssignSchedule", "assignSchedule"}, Hr,
                    {"work-schedules"}))

ScheduleEditor ==
    Screen({}, Each({"createWorkSchedule", "updateWorkSchedule"}, Hr, {"work-schedules"}))

AdminEmployees ==
    Screen({Ask("employees", "employees", Hr), Ask("work-schedules", "workSchedules", Hr)},
           Each({"deactivateEmployee", "reactivateEmployee", "updateEmployee"}, Hr, {"employees"}))

EmployeeEditor ==
    Screen({}, Each({"createEmployee", "updateEmployee"}, Hr, {"employees"}))

PasswordDialog == Screen({}, {Do("setEmployeePassword", Hr, {})})

\* The query is answered for whoever opens the address.
AdminTerminals_Fault ==
    Screen({Ask("terminals", "terminals", Everybody)},
           Each({"deactivateTerminal", "deleteTerminalPermanently", "revokeTerminalDevice"}, Hr,
                {"terminals"}))

AdminTerminals ==
    Screen({Ask("terminals", "terminals", Hr)},
           {Do("createTerminalPairing", Hr, {})}
           \cup Each({"deactivateTerminal", "deleteTerminalPermanently", "revokeTerminalDevice"},
                     Hr, {"terminals"}))

\* Not queries: a one-time PIN must not stay in the cache.
PinManagement ==
    Screen({}, Each({"terminalCredentials", "resetTerminalPin", "disableTerminalPin",
                     "unlockTerminalPin"}, Hr, {}))
AuditView == Screen({}, {Do("terminalAuditEvents", Hr, {})})

TerminalEditor ==
    Screen({}, Each({"createTerminal", "updateTerminal"}, Hr, {"terminals"}))

-----------------------------------------------------------------------------
(* Solo: every action goes through useSoloAction, which marks everything *)

\* run(operation, after, invalidate = true)
SoloAction(calls) == Each(calls, Hr, Everything)

SoloDashboard ==
    Screen({Ask("solo-times", "timeEntries", Hr), Ask("solo-bookable", "bookableProjects", Hr),
            Ask("solo-report", "soloReport", Hr), Ask("solo-summary", "summary", Hr)}, {})

SoloTimer == Screen({}, SoloAction({"clockIn", "clockOut", "switchProject"}))

SoloTimes ==
    Screen({Ask("solo-times", "timeEntries", Hr), Ask("solo-bookable", "bookableProjects", Hr)}, {})

EntryDialog == Screen({}, SoloAction({"void", "splitTimeEntry", "correct", "manual"}))

AuditDialog(call) == Screen({Ask("solo-audit", call, Hr)}, {})

SoloDailyBlockDialog ==
    Screen({Ask("solo-daily-block-option", "dailyBlockOption", Hr)}, SoloAction({"dailyBlock"}))

PersonalHints == Screen({Ask("solo-hints", "hints", Hr)}, {})

SoloMonthCalendar == Screen({Ask("solo-report", "soloReport", Hr)}, {})

SoloCalendar == Screen({Ask("solo-days", "days", Hr)}, SoloAction({"cancelDay"}))
DayEditor == Screen({}, SoloAction({"saveDay"}))

SoloCustomers ==
    Screen({Ask("solo-customers", "customers", Hr)}, SoloAction({"saveCustomer", "deleteCustomer"}))
CustomerEditor == Screen({}, SoloAction({"saveCustomer"}))

SoloProjects ==
    Screen({Ask("solo-projects", "projects", Hr), Ask("solo-customers", "customers", Hr)},
           SoloAction({"saveProject", "saveOrder", "deleteProject", "deleteOrder"}))
SoloProjectEditor == Screen({}, SoloAction({"saveProject"}))
OrderEditor == Screen({}, SoloAction({"saveOrder"}))

SoloReports ==
    Screen({Ask("solo-customers", "customers", Hr), Ask("solo-projects", "projects", Hr),
            Ask("solo-report", "soloReport", Hr)}, {})

ProfileEditor == Screen({}, SoloAction({"profile"}))
PolicyEditor == Screen({}, SoloAction({"settings", "completeSetup"}))
PasswordEditor == Screen({}, {Do("password", Hr, {})})
ModeEditor == Screen({}, SoloAction({"mode"}) \cup {Do("modePreview", Hr, {})})

-----------------------------------------------------------------------------
(* The routes *)

\* App itself asks which mode the installation is in; the shell has the theme.
Shell ==
    Screen({Ask("installation", "installation", Everybody)},
           {Do("updatePreferences", Everybody, {})})

Settings == {ProfileEditor, PasswordEditor, ModeEditor}

TeamRoutes ==
    [dashboard |-> {Dashboard},
     booking |-> {Timer, DailyBlockDialog, EntryEditDialog, SplitEntryDialog, BookProjectDialog},
     terminal |-> {TerminalScan},
     calendar |-> {CalendarOfRequests},
     requests |-> {OwnRequests, NewRequestForm, AttachmentsList},
     substitute |-> {SubstituteRow},
     absences |-> {AbsencesList, NewAbsenceForm},
     adminRequests |-> {AdminRequests, RequestRow, BulkConfirmDialog, AuditTrail},
     adminProjects |-> {AdminProjects, ProjectCard, ServiceOrderList, ServiceOrderRow,
                        ProjectEditor, AssignmentMatrix, ProjectReportDialog},
     adminWorkingTimes |-> {AdminWorkingTimes},
     adminSchedules |-> {AdminSchedules, ScheduleCard, ScheduleEditor},
     adminEmployees |-> {AdminEmployees, EmployeeEditor, PasswordDialog, PinManagement},
     adminTerminals |-> {AdminTerminals, TerminalEditor, AuditView},
     settings |-> Settings]

SoloRoutes ==
    [overview |-> {SoloDashboard, SoloTimer, PersonalHints},
     times |-> {SoloTimes, SoloTimer, EntryDialog, AuditDialog("audit"), SoloDailyBlockDialog},
     days |-> {SoloCalendar, DayEditor, SoloMonthCalendar, PersonalHints, AuditDialog("dayAudit")},
     customers |-> {SoloCustomers, CustomerEditor},
     projects |-> {SoloProjects, SoloProjectEditor, OrderEditor},
     reports |-> {SoloReports},
     settings |-> Settings \cup {PolicyEditor, AuditDialog("installationEvents")}]

Viewers == [mode : {"Team"}, role : Roles] \cup [mode : {"Solo"}, role : {"HRAdmin"}]

Routes(user) == IF user.mode = "Solo" THEN SoloRoutes ELSE TeamRoutes

\* Every route of a team can be opened by its address; only the settings are left out.
PagesOf(user) ==
    {p \in DOMAIN Routes(user) : p = "settings" => user.role = "HRAdmin"}

Components(user, page) == Routes(user)[page] \cup {Shell}

Asked(user, page) ==
    {q \in UNION {c.asks : c \in Components(user, page)} : user.role \in q.roles}

Offered(user, page) ==
    {d \in UNION {c.does : c \in Components(user, page)} : user.role \in d.roles}

-----------------------------------------------------------------------------
(* useRealtimeInvalidation *)

Told(event) ==
    CASE event = "request:transitioned" -> {"requests", "vacation-balance", "account"}
      [] event = "time-entry" ->
             {"solo-times", "solo-report", "solo-summary", "solo-hints", "time-entries", "account",
              "violations"}
      [] event = "project:changed" ->
             {"solo-projects", "solo-bookable", "solo-customers", "projects",
              "project-assignments", "bookable-projects"}
      [] event = "none" -> {}
=============================================================================
