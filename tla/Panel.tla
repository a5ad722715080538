------------------------------- MODULE Panel -------------------------------
(***************************************************************************)
(* The panel in the browser: src/web/src/App with its sidebar and its      *)
(* pages, of which one is mounted at a time.                               *)
(*                                                                         *)
(* A page that is left loses its hooks, its timers and its streams, and    *)
(* what its requests would have set.  A page that is opened starts anew    *)
(* and asks for what it shows.  Who the user is, which only the header     *)
(* shows, is left out.                                                     *)
(***************************************************************************)
EXTENDS StacksPage, ContainersPage, ResourcesPage, HostPages

VARIABLE currentTab

vars == <<nav, backend, currentTab, stacksPage, stacksCalls, containersVars, resourcesVars, hostVars>>

TabKey == {"dashboard", "stacks", "containers", "images", "volumes", "networks",
           "metrics", "events", "alerts", "audit", "settings"}

\* The page that App shows for a tab.
PageOf(tab) ==
  CASE tab \in {"images", "volumes", "networks"} -> "resources"
    [] tab \in {"events", "audit"}               -> "events"
    [] OTHER                                     -> tab
Open == PageOf(currentTab)

PanelTypeOK ==
  /\ nav \in Nullable(Stacks \cup Projects)
  /\ backend \in Backend
  /\ currentTab \in TabKey
  /\ StacksTypeOK /\ ContainersTypeOK /\ ResourcesTypeOK /\ HostTypeOK

-----------------------------------------------------------------------------
(* Mounting *)

FreshPages ==
  /\ stacksPage = FreshStacks /\ containersPage = FreshContainers
  /\ resourcesPage = FreshResources
  /\ dashboardPage = FreshDashboard /\ metricsPage = FreshMetrics
  /\ eventsPage = FreshEvents /\ alertsPage = FreshAlerts /\ settingsPage = FreshSettings

\* What the server may have by the time a page shows it; while none does, nothing is known.
Daemons(page) ==
  IF page = "resources" THEN [images : SUBSET Images, volumes : SUBSET Volumes, networks : {Networks}]
  ELSE {[images |-> {}, volumes |-> {}, networks |-> Networks]}
Hosts(page) ==
  [backups : IF page = "alerts" THEN 0..MaxBackups ELSE {0},
   paths : IF page = "settings" THEN {"blank", "old"} ELSE {"old"}]
Backends(page) ==
  [stacks : IF page \in {"dashboard", "stacks"}
            THEN {rows \in SUBSET Stacks : SystemStacks \subseteq rows} ELSE {SystemStacks},
   running : {{}}]

\* What the effects of a page ask for when it is mounted.
FirstStacks(page) == IF page = "stacks" THEN {ListStacks} ELSE {}
FirstContainers(page) == IF page = "containers" THEN {RequestOn("list", {})} ELSE {}
FirstResources(page) == IF page = "resources" THEN {LoadData("images")} ELSE {}
FirstHost(page) ==
  CASE page = "dashboard" -> {LoadDashboard}
    [] page = "metrics"   -> {HostRequest("history", FreshMetrics.range)}
    [] page = "alerts"    -> {LoadAlerts(FreshAlerts.subTab, host.backups)}
    [] page = "settings"  -> {HostRequest("settings", host.paths)}
    [] OTHER              -> {}

\* A dialog covers the sidebar as well.
Uncovered ==
  StacksUncovered(stacksPage) /\ ContainersUncovered(containersPage)
    /\ ResourcesUncovered(resourcesPage)

Mount(page) ==
  /\ stacksPage' = FreshStacks /\ containersPage' = FreshContainers
  /\ resourcesPage' = FreshResources
  /\ dashboardPage' = FreshDashboard /\ metricsPage' = FreshMetrics
  /\ eventsPage' = FreshEvents /\ alertsPage' = FreshAlerts /\ settingsPage' = FreshSettings
  /\ daemon' \in Daemons(page) /\ host' \in Hosts(page) /\ backend' \in Backends(page)
  /\ stacksCalls' = Orphans \cup FirstStacks(page)'
  /\ containersCalls' = FirstContainers(page)
  /\ resourcesCalls' = FirstResources(page)'
  /\ hostCalls' = FirstHost(page)'

\* A click in the sidebar.
SelectTab(tab) ==
  /\ Uncovered
  /\ currentTab' = tab
  /\ nav' = IF tab = "stacks" THEN nav ELSE {}
  /\ \/ PageOf(tab) = Open /\ UNCHANGED <<backend, stacksPage, stacksCalls, containersVars,
                                          resourcesVars, hostVars>>
     \/ PageOf(tab) # Open /\ Mount(PageOf(tab))

HandleNavigateStack(stackId) ==
  /\ nav' = {stackId}
  /\ currentTab' = "stacks"
  /\ Mount("stacks")

\* From a row of the table, by id.
NavigateFromDashboard(s) ==
  /\ Open = "dashboard"
  /\ s \in DashboardRows(dashboardPage)
  /\ HandleNavigateStack(s)

\* From the header of a group, by the name of its project.
NavigateFromGroup(project) ==
  /\ Open = "containers"
  /\ ContainersUncovered(containersPage) /\ ~containersPage.loading
  /\ project \in ProjectButtons(Containers)
  /\ HandleNavigateStack(project)

\* From the dialog of its compose file, by that name too.
NavigateFromModal(project) ==
  /\ Open = "containers"
  /\ project \in containersPage.stackModal
  /\ HandleNavigateStack(project)

-----------------------------------------------------------------------------
\* What was asked of the server before a page was left.
OrphanAnswer(c) ==
  /\ CreatedAnswer(c) \/ DeletedAnswer(c, Open = "stacks")
  /\ UNCHANGED <<currentTab, containersVars, resourcesVars, hostVars>>

\* A step of the page that is open.
PageStep ==
  \/ /\ Open = "stacks" /\ StacksNext
     /\ UNCHANGED <<currentTab, containersVars, resourcesVars, hostVars>>
  \/ /\ Open = "containers" /\ ContainersNext
     /\ UNCHANGED <<currentTab, nav, backend, stacksPage, stacksCalls, resourcesVars, hostVars>>
  \/ /\ Open = "resources" /\ ResourcesNext
     /\ UNCHANGED <<currentTab, nav, backend, stacksPage, stacksCalls, containersVars, hostVars>>
  \/ /\ \/ Open = "dashboard" /\ DashboardNext
        \/ Open = "metrics" /\ MetricsNext
        \/ Open = "events" /\ EventsNext
        \/ Open = "alerts" /\ AlertsNext
        \/ Open = "settings" /\ SettingsNext
     /\ UNCHANGED <<currentTab, nav, backend, stacksPage, stacksCalls, containersVars, resourcesVars>>

Init ==
  /\ nav = {}
  /\ currentTab = "dashboard"
  /\ FreshPages
  /\ daemon \in Daemons("dashboard") /\ host \in Hosts("dashboard")
  /\ backend \in Backends("dashboard")
  /\ stacksCalls = {} /\ containersCalls = {} /\ resourcesCalls = {}
  /\ hostCalls = FirstHost("dashboard")

Next ==
  \/ PageStep
  \/ \E tab \in TabKey : SelectTab(tab)
  \/ \E s \in Stacks : NavigateFromDashboard(s)
  \/ \E project \in Projects : NavigateFromGroup(project) \/ NavigateFromModal(project)
  \/ \E c \in stacksCalls : OrphanAnswer(c)

Spec == Init /\ [][Next]_vars

-----------------------------------------------------------------------------
(* Correctness *)

\* The stack that a link by id named is the active one as soon as the list has it, and stays so
\* until the user selects or creates another one, or the link ends with a delete: no answer, poll
\* or list that is due selects another one or none.
LinkOpens ==
  \A s \in stacksPage.stacks :
    nav = {s} /\ ~stacksPage.strayed => OverviewShown(stacksPage) = {s}

\* What a page shows of one thing is of the thing that was chosen on it, or by the link that led
\* to it; what else it may show is what was due when that was chosen.
ShownBelongs == LinkOpens /\ DetailBelongs /\ RangeShown

\* A change that the server has acknowledged is what the page shows, or is loading.
AcksShown ==
  /\ Open = "resources" => ResourcesUpToDate
  /\ BackupsUpToDate /\ SettingsKept
=============================================================================
