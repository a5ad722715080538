----------------------------- MODULE HostPages -----------------------------
(***************************************************************************)
(* The smaller pages of the browser: src/web/src/pages/Dashboard,          *)
(* MetricsView, EventsAudit, AlertsBackups and SettingsView.               *)
(*                                                                         *)
(* Of a chart the model keeps the range it is of, of the settings the      *)
(* allowed host paths.  Live values, statistics and GPUs are left out.     *)
(***************************************************************************)
EXTENDS PanelState

CONSTANTS
  KeepEvents, \* how many events are kept beside a new one
  MaxBackups, \* bounds the backups there are
  MaxHostCalls \* bounds the unanswered requests of a page beside which the user acts

ASSUME HostAssumption == KeepEvents \in Nat /\ MaxBackups \in Nat

VARIABLES
  dashboardPage, metricsPage, eventsPage, alertsPage, settingsPage, \* the hooks of each
  hostCalls, \* the requests of the one that is open, until they are answered
  host       \* the backups there are, and the stored paths

hostVars ==
  <<dashboardPage, metricsPage, eventsPage, alertsPage, settingsPage, hostCalls, host>>

Ranges == {"1h", "6h", "24h", "7d"}
Paths == {"blank", "old", "new"}
SubTabs == {"alerts", "backups"}

\* what: the stacks, the number of backups or the paths that the server has when it is
\* asked, the range asked for, or the paths to be stored
HostCall ==
  [kind : {"dashboard"}, what : SUBSET Stacks]
    \cup [kind : {"history"}, what : Ranges]
    \cup [kind : {"logs", "rules", "backup"}, what : {0}]
    \cup [kind : {"backups"}, what : 0..MaxBackups]
    \cup [kind : {"settings", "store"}, what : Paths]
HostRequest(kind, what) == [kind |-> kind, what |-> what]

\* data: the rows of the answer, if there was one
DashboardHooks == [data : Nullable(SUBSET Stacks), loading : BOOLEAN, error : BOOLEAN]
FreshDashboard == [data |-> {}, loading |-> TRUE, error |-> FALSE]

\* history: the range of the charts; late: those that were due when the range was chosen;
\* missed: since then an answer could not be read
MetricsHooks ==
  [range : Ranges, history : Nullable(Ranges), late : SUBSET Ranges, missed : BOOLEAN]
FreshMetrics == [range |-> "1h", history |-> {}, late |-> {}, missed |-> FALSE]

\* source: what the EventSource of the page is doing; events: how many are shown
EventsHooks ==
  [activeTab : {"events", "audit"}, connected : BOOLEAN,
   source : {"none", "connecting", "open"}, events : 0..(KeepEvents + 1), logs : BOOLEAN]
FreshEvents ==
  [activeTab |-> "events", connected |-> FALSE, source |-> "connecting", events |-> 0,
   logs |-> FALSE]

\* doubtful: two lists of the backups were due at once, or an answer was lost
AlertsHooks ==
  [subTab : SubTabs, rules : BOOLEAN, backups : 0..MaxBackups, backingUp : BOOLEAN,
   backupSuccess : BOOLEAN, doubtful : BOOLEAN]
FreshAlerts ==
  [subTab |-> "alerts", rules |-> FALSE, backups |-> 0, backingUp |-> FALSE,
   backupSuccess |-> FALSE, doubtful |-> FALSE]

\* allowedPaths  the text in the form
\* touched       it was typed into since the last save
\* early         it was saved while it had not been loaded, or could not be
SettingsHooks ==
  [allowedPaths : Paths, saving : BOOLEAN, saved : BOOLEAN, touched : BOOLEAN, early : BOOLEAN]
FreshSettings ==
  [allowedPaths |-> "blank", saving |-> FALSE, saved |-> FALSE, touched |-> FALSE,
   early |-> FALSE]

HostTypeOK ==
  /\ dashboardPage \in DashboardHooks
  /\ metricsPage \in MetricsHooks
  /\ eventsPage \in EventsHooks
  /\ alertsPage \in AlertsHooks
  /\ settingsPage \in SettingsHooks
  /\ hostCalls \in SUBSET HostCall
  /\ host \in [backups : 0..MaxBackups, paths : Paths]

AskHost(requests) == hostCalls' \in Sent(hostCalls, requests, MaxHostCalls)
AnswerHost(c, requests) == hostCalls' = Answered(hostCalls, c, requests)
Due(kind) == \E c \in hostCalls : c.kind = kind

-----------------------------------------------------------------------------
(* Dashboard *)

LoadDashboard == HostRequest("dashboard", backend.stacks)

TickDashboard ==
  /\ AskHost({LoadDashboard})
  /\ UNCHANGED <<dashboardPage, metricsPage, eventsPage, alertsPage, settingsPage, host>>

\* An error hides nothing that has been shown before.
DashboardAnswer(c) ==
  /\ c.kind = "dashboard"
  /\ \/ dashboardPage' = [data |-> {c.what}, loading |-> FALSE, error |-> FALSE]
     \/ dashboardPage' = [dashboardPage EXCEPT !.loading = FALSE, !.error = TRUE]
  /\ AnswerHost(c, {})
  /\ UNCHANGED <<metricsPage, eventsPage, alertsPage, settingsPage, host>>

\* The table of stacks, which each row leads to by its id.
SpinnerShown(page) == page.loading /\ page.data = {}
ErrorShown(page) == page.error /\ page.data = {}
DashboardRows(page) == IF SpinnerShown(page) \/ ErrorShown(page) THEN {} ELSE UNION page.data

-----------------------------------------------------------------------------
(* Metrics *)

HistoriesDue(calls) == {c.what : c \in {d \in calls : d.kind = "history"}}

SelectRange(range) ==
  /\ range # metricsPage.range
  /\ AskHost({HostRequest("history", range)})
  /\ metricsPage' = [metricsPage EXCEPT !.range = range,
                       !.late = HistoriesDue(hostCalls) \ {range}, !.missed = FALSE]
  /\ UNCHANGED <<dashboardPage, eventsPage, alertsPage, settingsPage, host>>

TickMetrics ==
  /\ AskHost({HostRequest("history", metricsPage.range)})
  /\ UNCHANGED <<dashboardPage, metricsPage, eventsPage, alertsPage, settingsPage, host>>

\* Three requests in one: when one of them fails nothing is set.
MetricsAnswer(c) ==
  /\ c.kind = "history"
  /\ \/ metricsPage' = [metricsPage EXCEPT !.history = {c.what}]
     \/ metricsPage' = [metricsPage EXCEPT !.missed = TRUE]
  /\ AnswerHost(c, {})
  /\ UNCHANGED <<dashboardPage, eventsPage, alertsPage, settingsPage, host>>

\* The bars, with the first and the last time of the range below them.
ChartShown(page) == page.history

-----------------------------------------------------------------------------
(* Events and audit log *)

\* One effect closes the stream, or opens another one; one reads the log.
SelectEventsTab(tab) ==
  /\ tab # eventsPage.activeTab
  /\ IF tab = "audit" THEN AskHost({HostRequest("logs", 0)}) ELSE UNCHANGED hostCalls
  /\ eventsPage' = [eventsPage EXCEPT !.activeTab = tab,
                      !.source = IF tab = "events" THEN "connecting" ELSE "none"]
  /\ UNCHANGED <<dashboardPage, metricsPage, alertsPage, settingsPage, host>>

SourceOpens ==
  /\ eventsPage.source = "connecting"
  /\ eventsPage' = [eventsPage EXCEPT !.source = "open", !.connected = TRUE]
  /\ UNCHANGED <<dashboardPage, metricsPage, alertsPage, settingsPage, hostCalls, host>>

\* The browser connects again by itself.
SourceError ==
  /\ eventsPage.source # "none"
  /\ eventsPage' = [eventsPage EXCEPT !.source = "connecting", !.connected = FALSE]
  /\ UNCHANGED <<dashboardPage, metricsPage, alertsPage, settingsPage, hostCalls, host>>

\* Every event is kept.
EventArrivesUncut ==
  /\ eventsPage.source = "open"
  /\ eventsPage' = [eventsPage EXCEPT !.events = @ + 1]
  /\ UNCHANGED <<dashboardPage, metricsPage, alertsPage, settingsPage, hostCalls, host>>

EventArrives ==
  /\ eventsPage.source = "open"
  /\ eventsPage' = [eventsPage EXCEPT
       !.events = 1 + IF @ < KeepEvents THEN @ ELSE KeepEvents]
  /\ UNCHANGED <<dashboardPage, metricsPage, alertsPage, settingsPage, hostCalls, host>>

LogsAnswer(c) ==
  /\ c.kind = "logs"
  /\ \/ eventsPage' = [eventsPage EXCEPT !.logs = TRUE]
     \/ UNCHANGED eventsPage
  /\ AnswerHost(c, {})
  /\ UNCHANGED <<dashboardPage, metricsPage, alertsPage, settingsPage, host>>

-----------------------------------------------------------------------------
(* Alerts and backups *)

LoadAlerts(subTab, backups) ==
  IF subTab = "alerts" THEN HostRequest("rules", 0) ELSE HostRequest("backups", backups)

SelectSubTab(subTab) ==
  /\ subTab # alertsPage.subTab
  /\ AskHost({LoadAlerts(subTab, host.backups)})
  /\ alertsPage' = [alertsPage EXCEPT !.subTab = subTab,
                      !.doubtful = @ \/ (subTab = "backups" /\ Due("backups"))]
  /\ UNCHANGED <<dashboardPage, metricsPage, eventsPage, settingsPage, host>>

RulesAnswer(c) ==
  /\ c.kind = "rules"
  /\ \/ alertsPage' = [alertsPage EXCEPT !.rules = TRUE]
     \/ UNCHANGED alertsPage
  /\ AnswerHost(c, {})
  /\ UNCHANGED <<dashboardPage, metricsPage, eventsPage, settingsPage, host>>

BackupsAnswer(c) ==
  /\ c.kind = "backups"
  /\ \/ \E backups \in {c.what, host.backups} :
          alertsPage' = [alertsPage EXCEPT !.backups = backups]
     \/ alertsPage' = [alertsPage EXCEPT !.doubtful = TRUE]
  /\ AnswerHost(c, {})
  /\ UNCHANGED <<dashboardPage, metricsPage, eventsPage, settingsPage, host>>

HandleCreateBackup ==
  /\ alertsPage.subTab = "backups"
  /\ ~alertsPage.backingUp
  /\ host.backups < MaxBackups
  /\ AskHost({HostRequest("backup", 0)})
  /\ alertsPage' = [alertsPage EXCEPT !.backingUp = TRUE, !.backupSuccess = FALSE]
  /\ UNCHANGED <<dashboardPage, metricsPage, eventsPage, settingsPage, host>>

\* loadData is the one of the click, which was on the tab of the backups.  Without an
\* answer the backup may have been made all the same.
BackupAnswer(c) ==
  /\ c.kind = "backup"
  /\ \/ /\ host' = [host EXCEPT !.backups = @ + 1]
        /\ alertsPage' = [alertsPage EXCEPT !.backingUp = FALSE, !.backupSuccess = TRUE,
                                            !.doubtful = @ \/ Due("backups")]
        /\ AnswerHost(c, {LoadAlerts("backups", host'.backups)})
     \/ /\ host' \in {host, [host EXCEPT !.backups = @ + 1]}
        /\ alertsPage' = [alertsPage EXCEPT !.backingUp = FALSE, !.doubtful = TRUE]
        /\ AnswerHost(c, {})
  /\ UNCHANGED <<dashboardPage, metricsPage, eventsPage, settingsPage>>

BackupsShown(page) == IF page.subTab = "backups" THEN {page.backups} ELSE {}

-----------------------------------------------------------------------------
(* Settings *)

\* What is loaded replaces what has been typed, unless nothing is stored.
SettingsAnswer(c) ==
  /\ c.kind = "settings"
  /\ \/ settingsPage' = [settingsPage EXCEPT !.allowedPaths = IF c.what = "blank" THEN @ ELSE c.what]
     \/ settingsPage' = [settingsPage EXCEPT !.early = TRUE]
  /\ AnswerHost(c, {})
  /\ UNCHANGED <<dashboardPage, metricsPage, eventsPage, alertsPage, host>>

\* The form can be typed into at any time, while it is being saved too.
TypePaths(paths) ==
  /\ settingsPage' = [settingsPage EXCEPT !.allowedPaths = paths, !.touched = TRUE]
  /\ UNCHANGED <<dashboardPage, metricsPage, eventsPage, alertsPage, hostCalls, host>>

SaveSettingsOffered(page) == ~page.saving

HandleSave ==
  /\ SaveSettingsOffered(settingsPage)
  /\ AskHost({HostRequest("store", settingsPage.allowedPaths)})
  /\ settingsPage' = [settingsPage EXCEPT !.saving = TRUE, !.saved = FALSE, !.touched = FALSE,
                        !.early = @ \/ Due("settings")]
  /\ UNCHANGED <<dashboardPage, metricsPage, eventsPage, alertsPage, host>>

SaveSettingsAnswer(c) ==
  /\ c.kind = "store"
  /\ \/ /\ host' = [host EXCEPT !.paths = c.what]
        /\ settingsPage' = [settingsPage EXCEPT !.saving = FALSE, !.saved = TRUE]
     \/ /\ host' \in {host, [host EXCEPT !.paths = c.what]}
        /\ settingsPage' = [settingsPage EXCEPT !.saving = FALSE]
  /\ AnswerHost(c, {})
  /\ UNCHANGED <<dashboardPage, metricsPage, eventsPage, alertsPage>>

\* Three seconds later; a timer of an earlier save may do it sooner.
SavedExpires ==
  /\ settingsPage.saved
  /\ settingsPage' = [settingsPage EXCEPT !.saved = FALSE]
  /\ UNCHANGED <<dashboardPage, metricsPage, eventsPage, alertsPage, hostCalls, host>>

SavedShown(page) == page.saved

-----------------------------------------------------------------------------
DashboardNext == TickDashboard \/ \E c \in hostCalls : DashboardAnswer(c)

MetricsNext ==
  \/ \E range \in Ranges : SelectRange(range)
  \/ TickMetrics
  \/ \E c \in hostCalls : MetricsAnswer(c)

EventsNext ==
  \/ \E tab \in {"events", "audit"} : SelectEventsTab(tab)
  \/ SourceOpens \/ SourceError \/ EventArrives
  \/ \E c \in hostCalls : LogsAnswer(c)

AlertsNext ==
  \/ \E subTab \in SubTabs : SelectSubTab(subTab)
  \/ HandleCreateBackup
  \/ \E c \in hostCalls : RulesAnswer(c) \/ BackupsAnswer(c) \/ BackupAnswer(c)

SettingsNext ==
  \/ \E paths \in {"blank", "new"} : TypePaths(paths)
  \/ HandleSave \/ SavedExpires
  \/ \E c \in hostCalls : SettingsAnswer(c) \/ SaveSettingsAnswer(c)

-----------------------------------------------------------------------------
(* Correctness *)

\* The charts are of the range whose button is lit, or of one that was due when that button was
\* pressed, unless the range is still being loaded or could not be.
RangeShown ==
  \/ ChartShown(metricsPage) \subseteq {metricsPage.range} \cup metricsPage.late
  \/ HostRequest("history", metricsPage.range) \in hostCalls
  \/ metricsPage.missed

\* A backup that was acknowledged is in the list, or the list is on its way.
BackupsUpToDate ==
  ~alertsPage.doubtful => BackupsShown(alertsPage) \subseteq {host.backups} \/ Due("backups")

\* When the page says that the settings were saved, the form shows what is stored, unless it
\* was typed into since or was saved before it had been loaded.
SettingsKept ==
  SavedShown(settingsPage) /\ ~settingsPage.touched /\ ~settingsPage.early =>
    settingsPage.allowedPaths = host.paths
=============================================================================
