--------------------------- MODULE ContainersPage ---------------------------
(***************************************************************************)
(* The page of the browser that lists containers and opens one of them:    *)
(* src/web/src/pages/Containers.                                           *)
(*                                                                         *)
(* Effects run when the selected container or the tab of its dialog has    *)
(* changed: one loads the details, one follows the log, one holds the      *)
(* terminal.  An effect closes the stream of its last run first.           *)
(*                                                                         *)
(* Which container runs is what the last list said.  The search box, the   *)
(* filter by state, the two views and collapsed groups only choose among   *)
(* the rows; the model lets the user find every row.  Sizes, ports and the *)
(* statistics beside the rows are left out.                                *)
(***************************************************************************)
EXTENDS PanelState

CONSTANTS
  Containers, \* the containers of the daemon
  ProjectOf,  \* stack_name: the compose project of each container, if it has one
  MaxContainersCalls    \* bounds the unanswered requests of the page beside which the user acts

ASSUME ContainersAssumption == ProjectOf \in [Containers -> Nullable(Projects)]

VARIABLES
  containersPage, \* the hooks of the page
  containersCalls \* its requests, until they are answered

containersVars == <<containersPage, containersCalls>>

DetailTabs == {"overview", "logs", "terminal", "stats"}

\* of: the container that the request is about, or the project whose compose file is asked for
ContainersCall ==
  [kind : {"list", "detail", "stats", "action"}, of : Nullable(Containers)]
    \cup [kind : {"modal"}, of : Nullable(Projects)]
RequestOn(kind, of) == [kind |-> kind, of |-> of]

\* running     the containers that the list calls running
\* stackModal  the project whose compose file is shown
\* logLines    the containers that the lines in the log are from
\* logStreams  those whose EventSource is open
\* terminals   those whose WebSocket is not closed; opened: the one in wsRef is open
\* sent        the container that got the last command since the dialog was opened
\* termOutput  the containers whose output or commands are in the text of the terminal
\* late        the containers about which an answer was due when the selection changed
ContainersHooks ==
  [running : SUBSET Containers, loading : BOOLEAN, stackModal : Nullable(Projects),
   selectedId : Nullable(Containers), detail : Nullable(Containers), detailTab : DetailTabs,
   stats : Nullable(Containers), logLines : SUBSET Containers, logStreams : SUBSET Containers,
   terminals : SUBSET Containers, wsRef : Nullable(Containers), opened : BOOLEAN,
   sent : Nullable(Containers), termOutput : SUBSET Containers, late : SUBSET Containers]

FreshContainers ==
  [running |-> {}, loading |-> TRUE, stackModal |-> {},
   selectedId |-> {}, detail |-> {}, detailTab |-> "overview",
   stats |-> {}, logLines |-> {}, logStreams |-> {},
   terminals |-> {}, wsRef |-> {}, opened |-> FALSE, sent |-> {},
   termOutput |-> {}, late |-> {}]

ContainersTypeOK ==
  /\ containersPage \in ContainersHooks
  /\ containersCalls \in SUBSET ContainersCall

AskContainers(requests) == containersCalls' \in Sent(containersCalls, requests, MaxContainersCalls)
AnswerContainers(c, requests) == containersCalls' = Answered(containersCalls, c, requests)

-----------------------------------------------------------------------------
(* The rows *)

\* What the header lets through: a state, and what the search finds.
Filtered(page, state, found) ==
  CASE state = "all"     -> found
    [] state = "running" -> found \cap page.running
    [] state = "stopped" -> found \ page.running

\* The containers of each compose project, and those without one.
Groups(rows) == [key \in {ProjectOf[c] : c \in rows} |-> {c \in rows : ProjectOf[c] = key}]

\* The header of a group has buttons for a project only.
ProjectButtons(rows) == UNION DOMAIN Groups(rows)

\* Either view has a row for every container that the filter lets through.
GroupedRows(rows) == UNION {Groups(rows)[key] : key \in DOMAIN Groups(rows)}
FlatRows(rows) == rows

ActionsOf(page, c) == IF c \in page.running THEN {"restart", "stop"} ELSE {"start"}

\* The compose file of a project, in a dialog with a button that leads to its stack.
ComposeShown(page) == page.stackModal

\* Nothing beneath a dialog can be clicked.
ContainersUncovered(page) == ComposeShown(page) = {} /\ page.selectedId = {}

\* The rows that the user can click in some view under some filter.
RowsOffered(page) ==
  IF page.loading \/ ~ContainersUncovered(page) THEN {}
  ELSE LET rows == Filtered(page, "all", Containers) IN GroupedRows(rows) \cup FlatRows(rows)

-----------------------------------------------------------------------------
(* The dialog of one container *)

\* Its title and its first tab, the lines of the log, and the statistics.
DetailShown(page) == page.detail
LogShown(page) == page.logLines
TerminalShown(page) == page.termOutput
StatsShown(page) == page.stats

\* The details stay.
DetailEffectKeeps(page) == page

\* Closing the dialog forgets the details, everything else asks for them.
DetailEffect(page) ==
  IF page.selectedId = {} THEN [page EXCEPT !.detail = {}] ELSE page
DetailRequests(page) ==
  IF page.selectedId = {} THEN {}
  ELSE {RequestOn(kind, page.selectedId) :
          kind \in IF page.detailTab = "stats" THEN {"detail", "stats"} ELSE {"detail"}}

\* The EventSource of the last run goes on.
LogsEffectLeaks(page) ==
  IF page.detailTab # "logs" \/ page.selectedId = {}
  THEN page
  ELSE [page EXCEPT !.logStreams = @ \cup page.selectedId, !.logLines = {}]

\* The EventSource of the last run is closed; a log that is opened starts empty.
LogsEffect(page) ==
  IF page.detailTab # "logs" \/ page.selectedId = {}
  THEN [page EXCEPT !.logStreams = {}]
  ELSE [page EXCEPT !.logStreams = page.selectedId, !.logLines = {}]

\* The WebSocket of the last run is closed; wsRef keeps it until another one is opened.
TerminalEffect(page) ==
  IF page.detailTab # "terminal" \/ page.selectedId = {}
  THEN [page EXCEPT !.terminals = {}, !.opened = FALSE]
  ELSE [page EXCEPT !.terminals = page.selectedId, !.wsRef = page.selectedId, !.opened = FALSE]

\* The containers of which something will be shown when it comes.
AboutDue(calls) == UNION {c.of : c \in {d \in calls : d.kind \in {"detail", "stats"}}}

\* The selected container, or the tab, becomes another one.  The text of the terminal stays.
Chosen(page, id, tab) ==
  LET chosen == [page EXCEPT !.selectedId = id, !.detailTab = tab, !.sent = {},
                   !.late = (IF id = {} THEN {} ELSE @) \cup (AboutDue(containersCalls) \ id)]
  IN  TerminalEffect(LogsEffect(DetailEffect(chosen)))

ShowDetail(id, tab) ==
  /\ <<id, tab>> # <<containersPage.selectedId, containersPage.detailTab>>
  /\ containersPage' = Chosen(containersPage, id, tab)
  /\ containersCalls' = containersCalls \cup DetailRequests(containersPage')

\* The name, the log button and the terminal button of a row.
OpenContainer(c, tab) ==
  /\ c \in RowsOffered(containersPage)
  /\ tab \in {"overview", "logs", "terminal"}
  /\ Cardinality(containersCalls) < MaxContainersCalls
  /\ ShowDetail({c}, tab)

\* The tabs appear with the details.
SelectDetailTab(tab) ==
  /\ containersPage.selectedId # {}
  /\ containersPage.detail # {}
  /\ Cardinality(containersCalls) < MaxContainersCalls
  /\ ShowDetail(containersPage.selectedId, tab)

CloseContainer ==
  /\ containersPage.selectedId # {}
  /\ ShowDetail({}, containersPage.detailTab)

DetailAnswer(c) ==
  /\ c.kind = "detail"
  /\ \/ containersPage' = [containersPage EXCEPT !.detail = c.of]
     \/ UNCHANGED containersPage
  /\ AnswerContainers(c, {})

\* An error removes the statistics.
StatsAnswer(c) ==
  /\ c.kind = "stats"
  /\ \E of \in {c.of, {}} : containersPage' = [containersPage EXCEPT !.stats = of]
  /\ AnswerContainers(c, {})

-----------------------------------------------------------------------------
(* Log and terminal *)

\* A message of an EventSource that is open.
LogLine(c) ==
  /\ c \in containersPage.logStreams
  /\ containersPage' = [containersPage EXCEPT !.logLines = @ \cup {c}]
  /\ UNCHANGED containersCalls

\* onerror closes it for good.
LogError(c) ==
  /\ c \in containersPage.logStreams
  /\ containersPage' = [containersPage EXCEPT !.logStreams = @ \ {c}]
  /\ UNCHANGED containersCalls

\* logFollow is a dependency of the effect: the log starts again.
ToggleFollow ==
  /\ containersPage.detailTab = "logs"
  /\ containersPage.detail # {}
  /\ containersPage' = LogsEffect(containersPage)
  /\ UNCHANGED containersCalls

TerminalOpens ==
  /\ containersPage.wsRef \subseteq containersPage.terminals
  /\ containersPage.wsRef # {}
  /\ containersPage' = [containersPage EXCEPT !.opened = TRUE]
  /\ UNCHANGED containersCalls

TerminalCloses(c) ==
  /\ c \in containersPage.terminals
  /\ containersPage' = [containersPage EXCEPT !.terminals = @ \ {c},
                          !.opened = @ /\ containersPage.wsRef # {c}]
  /\ UNCHANGED containersCalls

\* A message of the socket is added to the text, which nothing ever empties.
TerminalOutput(c) ==
  /\ c \in containersPage.terminals
  /\ containersPage.opened
  /\ containersPage' = [containersPage EXCEPT !.termOutput = @ \cup {c}]
  /\ UNCHANGED containersCalls

\* The command is added to that text.  Without an open socket it goes nowhere and the page
\* makes up an answer, which is added too.
HandleTermSubmit ==
  /\ containersPage.detailTab = "terminal"
  /\ containersPage.selectedId # {}
  /\ containersPage.detail # {}
  /\ containersPage' = [containersPage EXCEPT
       !.sent = IF containersPage.opened THEN containersPage.wsRef ELSE @,
       !.termOutput = @ \cup containersPage.selectedId]
  /\ UNCHANGED containersCalls

-----------------------------------------------------------------------------
(* Lists, actions, compose files *)

TickContainers ==
  /\ AskContainers({RequestOn("list", {})})
  /\ UNCHANGED containersPage

ContainersAnswer(c) ==
  /\ c.kind = "list"
  /\ \E running \in SUBSET Containers :
       containersPage' = [containersPage EXCEPT !.running = running, !.loading = FALSE]
  /\ AnswerContainers(c, {})

HandleAction(c, action) ==
  /\ c \in RowsOffered(containersPage)
  /\ action \in ActionsOf(containersPage, c)
  /\ AskContainers({RequestOn("action", {c})})
  /\ UNCHANGED containersPage

ContainerActionAnswer(c) ==
  /\ c.kind = "action"
  /\ \E after \in {{RequestOn("list", {})}, {}} : AnswerContainers(c, after)
  /\ UNCHANGED containersPage

\* From the header of a group.
OpenStackModal(project) ==
  /\ ContainersUncovered(containersPage)
  /\ ~containersPage.loading
  /\ project \in ProjectButtons(Containers)
  /\ AskContainers({RequestOn("modal", {project})})
  /\ UNCHANGED containersPage

\* From the details, which are closed.
ViewCompose ==
  /\ containersPage.selectedId # {}
  /\ containersPage.detailTab = "overview"
  /\ \E c \in DetailShown(containersPage) : \E project \in ProjectOf[c] :
       /\ containersPage' = Chosen(containersPage, {}, "overview")
       /\ AskContainers({RequestOn("modal", {project})})

\* Read or not, the file is shown when the answer comes, a dialog that was closed included.
StackModalAnswer(c) ==
  /\ c.kind = "modal"
  /\ containersPage' = [containersPage EXCEPT !.stackModal = c.of]
  /\ AnswerContainers(c, {})

CloseStackModal ==
  /\ ComposeShown(containersPage) # {}
  /\ containersPage' = [containersPage EXCEPT !.stackModal = {}]
  /\ UNCHANGED containersCalls

-----------------------------------------------------------------------------
ContainersNext ==
  \/ TickContainers
  \/ \E c \in Containers, tab \in DetailTabs : OpenContainer(c, tab)
  \/ \E tab \in DetailTabs : SelectDetailTab(tab)
  \/ CloseContainer
  \/ \E c \in Containers : LogLine(c) \/ LogError(c) \/ TerminalOutput(c) \/ TerminalCloses(c)
  \/ ToggleFollow \/ TerminalOpens \/ HandleTermSubmit
  \/ \E c \in Containers, action \in {"start", "stop", "restart"} : HandleAction(c, action)
  \/ \E project \in Projects : OpenStackModal(project)
  \/ ViewCompose \/ CloseStackModal
  \/ \E c \in containersCalls :
       \/ ContainersAnswer(c) \/ DetailAnswer(c) \/ StatsAnswer(c)
       \/ ContainerActionAnswer(c) \/ StackModalAnswer(c)

-----------------------------------------------------------------------------
(* Correctness *)

\* The details, and the statistics beside them, are those of the selected container, or of one
\* about which an answer was due when it was selected or the dialog was closed: such an answer
\* is shown whenever it comes, and is the only one that is shown of another container.
DetailBelongs ==
  /\ DetailShown(containersPage) \subseteq containersPage.selectedId \cup containersPage.late
  /\ containersPage.detailTab = "stats" /\ containersPage.selectedId # {} =>
       \/ StatsShown(containersPage) \subseteq containersPage.selectedId \cup containersPage.late
       \/ RequestOn("stats", containersPage.selectedId) \in containersCalls

\* The log has lines of the selected container only, no stream or terminal of another one is
\* open, so that what comes in is of the selected one, and no command has gone to another one,
\* in whatever order effects, messages, errors and clicks come.  The text of the terminal is
\* left out: what the terminals opened before have put out stays in it.
StreamsBelong ==
  /\ containersPage.logStreams \subseteq containersPage.selectedId
  /\ containersPage.detailTab = "logs" /\ containersPage.selectedId # {} =>
       LogShown(containersPage) \subseteq containersPage.selectedId
  /\ containersPage.terminals \subseteq containersPage.selectedId
  /\ containersPage.sent \subseteq containersPage.selectedId
=============================================================================
