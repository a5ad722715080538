---------------------------- MODULE PanelProofs ----------------------------
(***************************************************************************)
(* Theorems about Panel, for any stacks, containers, images, volumes and   *)
(* networks and any bounds.  Every page has an inductive invariant of its  *)
(* own; mounting a page establishes all of them, and a step of one page    *)
(* leaves the variables of the others alone.                               *)
(***************************************************************************)
EXTENDS Panel, StacksPageProofs

-----------------------------------------------------------------------------
(* The containers page *)

\* Beside the properties: an open terminal is the one in wsRef, and what is due is about the
\* selected container or one of those in late.
OpenedIsLive(page) == page.opened => page.wsRef \subseteq page.terminals

DueBelongs(page, calls) ==
  \A c \in calls : c.kind \in {"detail", "stats"} => c.of \subseteq page.selectedId \cup page.late

ContainersInv ==
  /\ ContainersTypeOK
  /\ OpenedIsLive(containersPage) /\ StreamsBelong
  /\ DueBelongs(containersPage, containersCalls) /\ DetailBelongs

LEMMA RequestOnTyped ==
  /\ \A kind \in {"list", "detail", "stats", "action"}, of \in Nullable(Containers) :
       RequestOn(kind, of) \in ContainersCall
  /\ \A project \in Projects : RequestOn("modal", {project}) \in ContainersCall
BY DEF RequestOn, ContainersCall, Nullable

LEMMA ContainerCallTyped ==
  ASSUME NEW c \in ContainersCall
  PROVE  /\ c.kind # "modal" => c.of \in Nullable(Containers)
         /\ c.kind = "modal" => c.of \in Nullable(Projects)
BY DEF ContainersCall

LEMMA AboutDueTyped ==
  ASSUME containersCalls \in SUBSET ContainersCall
  PROVE  AboutDue(containersCalls) \in SUBSET Containers
BY ContainerCallTyped DEF AboutDue, Nullable

LEMMA NoContainer == {} \in Nullable(Containers) /\ {} \in Nullable(Projects)
BY DEF Nullable

\* What a page is like after the selection or the tab has changed.
LEMMA ChosenPage ==
  ASSUME NEW page \in ContainersHooks, NEW id \in Nullable(Containers), NEW tab \in DetailTabs,
         AboutDue(containersCalls) \in SUBSET Containers
  PROVE  LET new == Chosen(page, id, tab)
         IN  /\ new \in ContainersHooks
             /\ new.selectedId = id /\ new.detailTab = tab /\ new.sent = {}
             /\ new.detail = IF id = {} THEN {} ELSE page.detail
             /\ new.late = (IF id = {} THEN {} ELSE page.late) \cup (AboutDue(containersCalls) \ id)
             /\ new.logStreams \subseteq id
             /\ tab = "logs" /\ id # {} => new.logLines = {}
             /\ new.terminals \subseteq id
             /\ ~new.opened
<1> DEFINE late == (IF id = {} THEN {} ELSE page.late) \cup (AboutDue(containersCalls) \ id)
           chosen == [page EXCEPT !.selectedId = id, !.detailTab = tab, !.sent = {}, !.late = late]
           detailed == DetailEffect(chosen)
           logged == LogsEffect(detailed)
<1>0. id \in SUBSET Containers
  BY DEF Nullable
<1>b. late \in SUBSET Containers
  BY DEF ContainersHooks
<1> HIDE DEF late
<1>1. chosen \in ContainersHooks
  BY <1>b, NoContainer DEF ContainersHooks
<1>2. /\ chosen.selectedId = id /\ chosen.detailTab = tab /\ chosen.sent = {}
      /\ chosen.detail = page.detail
      /\ chosen.late = late
  BY DEF ContainersHooks
<1> HIDE DEF chosen
<1>3. /\ detailed \in ContainersHooks
      /\ detailed.selectedId = id /\ detailed.detailTab = tab /\ detailed.sent = {}
      /\ detailed.detail = IF id = {} THEN {} ELSE page.detail
      /\ detailed.late = chosen.late
  BY <1>1, <1>2, NoContainer DEF DetailEffect, ContainersHooks
<1> HIDE DEF detailed
<1>4. /\ logged \in ContainersHooks
      /\ logged.selectedId = id /\ logged.detailTab = tab /\ logged.sent = {}
      /\ logged.detail = detailed.detail /\ logged.late = chosen.late
      /\ logged.logStreams \subseteq id
      /\ tab = "logs" /\ id # {} => logged.logLines = {}
  BY <1>0, <1>3 DEF LogsEffect, ContainersHooks
<1> HIDE DEF logged
<1> DEFINE new == TerminalEffect(logged)
<1>5. /\ new \in ContainersHooks
      /\ new.selectedId = id /\ new.detailTab = tab /\ new.sent = {}
      /\ new.detail = logged.detail /\ new.late = chosen.late
      /\ new.logStreams = logged.logStreams /\ new.logLines = logged.logLines
      /\ new.terminals \subseteq id
      /\ ~new.opened
  BY <1>0, <1>4 DEF TerminalEffect, ContainersHooks
<1>6. new = Chosen(page, id, tab)
  BY DEF Chosen, chosen, detailed, logged, late
<1>7. QED
  BY <1>2, <1>3, <1>4, <1>5, <1>6 DEF late

\* Requests that are not about what the dialog shows.
LEMMA OtherRequests ==
  ASSUME ContainersInv, containersPage' = containersPage,
         containersCalls' \in SUBSET ContainersCall,
         \A d \in containersCalls' :
           d \in containersCalls \/ d.kind \notin {"detail", "stats"},
         \A d \in containersCalls : d \in containersCalls' \/ d.kind # "stats"
  PROVE  ContainersInv'
<1>1. \A id : RequestOn("stats", id).kind = "stats"
  BY DEF RequestOn
<1>2. DetailBelongs'
  BY <1>1 DEF ContainersInv, DetailBelongs, DetailShown, StatsShown
<1>3. QED
  BY <1>2
  DEF ContainersInv, ContainersTypeOK, OpenedIsLive, StreamsBelong, LogShown, DueBelongs

LEMMA ChosenStep ==
  ASSUME ContainersInv, NEW id \in Nullable(Containers), NEW tab \in DetailTabs,
         NEW others \in SUBSET ContainersCall, \A c \in others : c.kind \notin {"detail", "stats"},
         id # {} => id = containersPage.selectedId \/ containersPage.selectedId = {},
         containersPage' = Chosen(containersPage, id, tab),
         containersCalls' = containersCalls \cup DetailRequests(containersPage') \cup others
  PROVE  ContainersInv'
<1> DEFINE new == Chosen(containersPage, id, tab)
<1>1. /\ new \in ContainersHooks
      /\ new.selectedId = id /\ new.detailTab = tab /\ new.sent = {}
      /\ new.detail = IF id = {} THEN {} ELSE containersPage.detail
      /\ new.late = (IF id = {} THEN {} ELSE containersPage.late)
                      \cup (AboutDue(containersCalls) \ id)
      /\ new.logStreams \subseteq id
      /\ tab = "logs" /\ id # {} => new.logLines = {}
      /\ new.terminals \subseteq id
      /\ ~new.opened
  BY ChosenPage, AboutDueTyped DEF ContainersInv, ContainersTypeOK
<1> HIDE DEF new
<1>2. containersPage' = new
  BY DEF new
<1>3. /\ \A c \in DetailRequests(new) : c \in ContainersCall /\ c.of = id
      /\ id # {} /\ tab = "stats" => RequestOn("stats", id) \in DetailRequests(new)
  BY <1>1, RequestOnTyped DEF DetailRequests, RequestOn
<1>4. ContainersTypeOK'
  BY <1>1, <1>2, <1>3 DEF ContainersInv, ContainersTypeOK
<1>5. OpenedIsLive(new) /\ StreamsBelong'
  BY <1>1, <1>2 DEF OpenedIsLive, StreamsBelong, LogShown
<1>6. DueBelongs(new, containersCalls')
  BY <1>1, <1>2, <1>3 DEF DueBelongs, AboutDue
<1>7. new.detail \subseteq id \cup new.late
  BY <1>1 DEF ContainersInv, DetailBelongs, DetailShown
<1>8. DetailBelongs'
  BY <1>1, <1>2, <1>3, <1>7 DEF DetailBelongs, DetailShown
<1>9. QED
  BY <1>2, <1>4, <1>5, <1>6, <1>8 DEF ContainersInv

LEMMA ContainersStep == ContainersInv /\ ContainersNext => ContainersInv'
<1> SUFFICES ASSUME ContainersInv, ContainersNext PROVE ContainersInv'
  OBVIOUS
<1>a. containersPage \in ContainersHooks /\ containersCalls \in SUBSET ContainersCall
  BY DEF ContainersInv, ContainersTypeOK
<1>1. CASE TickContainers
  <2>1. RequestOn("list", {}) \in ContainersCall /\ RequestOn("list", {}).kind = "list"
    BY NoContainer, RequestOnTyped DEF RequestOn
  <2>2. containersPage' = containersPage
        /\ containersCalls' = containersCalls \cup {RequestOn("list", {})}
    BY <1>1 DEF TickContainers, AskContainers, Sent
  <2>3. QED
    BY <1>a, <2>1, <2>2, OtherRequests
<1>2. ASSUME NEW c \in Containers, NEW tab \in DetailTabs, OpenContainer(c, tab)
      PROVE  ContainersInv'
  <2>1. containersPage.selectedId = {} /\ {c} \in Nullable(Containers)
    BY <1>2 DEF OpenContainer, RowsOffered, ContainersUncovered, Nullable
  <2>2. QED
    BY <1>2, <2>1, ChosenStep DEF OpenContainer, ShowDetail
<1>3. ASSUME NEW tab \in DetailTabs, SelectDetailTab(tab) PROVE ContainersInv'
  <2> DEFINE none == {}
  <2>1. containersPage.selectedId \in Nullable(Containers)
    BY <1>a DEF ContainersHooks
  <2>2. /\ containersPage' = Chosen(containersPage, containersPage.selectedId, tab)
        /\ containersCalls' = containersCalls \cup DetailRequests(containersPage') \cup none
    BY <1>3 DEF SelectDetailTab, ShowDetail
  <2>3. none \in SUBSET ContainersCall /\ \A c \in none : c.kind \notin {"detail", "stats"}
    OBVIOUS
  <2> HIDE DEF none
  <2>4. QED
    BY <2>1, <2>2, <2>3, ChosenStep
<1>4. CASE CloseContainer
  <2> DEFINE none == {}
  <2>1. containersPage.detailTab \in DetailTabs
    BY <1>a DEF ContainersHooks
  <2>2. /\ containersPage' = Chosen(containersPage, {}, containersPage.detailTab)
        /\ containersCalls' = containersCalls \cup DetailRequests(containersPage') \cup none
    BY <1>4 DEF CloseContainer, ShowDetail
  <2>3. none \in SUBSET ContainersCall /\ \A c \in none : c.kind \notin {"detail", "stats"}
    OBVIOUS
  <2> HIDE DEF none
  <2>4. QED
    BY <2>1, <2>2, <2>3, ChosenStep, NoContainer
<1>5. CASE ViewCompose
  <2>1. PICK project \in Projects :
          /\ containersPage' = Chosen(containersPage, {}, "overview")
          /\ AskContainers({RequestOn("modal", {project})})
    <3>1. \A c \in containersPage.detail : c \in Containers
      BY <1>a DEF ContainersHooks, Nullable
    <3>2. \A c \in Containers : \A project \in ProjectOf[c] : project \in Projects
      BY ContainersAssumption DEF Nullable
    <3>3. QED
      BY <1>5, <3>1, <3>2 DEF ViewCompose, DetailShown
  <2>2. DetailRequests(containersPage') = {}
    BY <1>a, <2>1, ChosenPage, AboutDueTyped, NoContainer DEF DetailRequests, DetailTabs
  <2>3. RequestOn("modal", {project}) \in ContainersCall
    BY RequestOnTyped
  <2>4. RequestOn("modal", {project}).kind = "modal"
    BY DEF RequestOn
  <2> DEFINE others == {RequestOn("modal", {project})}
  <2>5. containersCalls' = containersCalls \cup DetailRequests(containersPage') \cup others
    BY <2>1, <2>2 DEF AskContainers, Sent
  <2>6. others \in SUBSET ContainersCall /\ \A c \in others : c.kind \notin {"detail", "stats"}
    BY <2>3, <2>4
  <2>7. "overview" \in DetailTabs
    BY DEF DetailTabs
  <2> HIDE DEF others
  <2>8. QED
    BY <2>1, <2>5, <2>6, <2>7, ChosenStep, NoContainer
<1>6. ASSUME NEW c \in Containers, NEW action, HandleAction(c, action) PROVE ContainersInv'
  <2>1. RequestOn("action", {c}) \in ContainersCall /\ RequestOn("action", {c}).kind = "action"
    BY RequestOnTyped DEF RequestOn, Nullable
  <2>2. containersPage' = containersPage
        /\ containersCalls' = containersCalls \cup {RequestOn("action", {c})}
    BY <1>6 DEF HandleAction, AskContainers, Sent
  <2>3. QED
    BY <1>a, <2>1, <2>2, OtherRequests
<1>7. ASSUME NEW project \in Projects, OpenStackModal(project) PROVE ContainersInv'
  <2>1. /\ RequestOn("modal", {project}) \in ContainersCall
        /\ RequestOn("modal", {project}).kind = "modal"
    BY RequestOnTyped DEF RequestOn
  <2>2. containersPage' = containersPage
        /\ containersCalls' = containersCalls \cup {RequestOn("modal", {project})}
    BY <1>7 DEF OpenStackModal, AskContainers, Sent
  <2>3. QED
    BY <1>a, <2>1, <2>2, OtherRequests
<1>8. ASSUME NEW c \in containersCalls, ContainersAnswer(c) PROVE ContainersInv'
  <2>1. PICK running \in SUBSET Containers :
          containersPage' = [containersPage EXCEPT !.running = running, !.loading = FALSE]
    BY Zenon, <1>8 DEF ContainersAnswer
  <2>2. containersPage' \in ContainersHooks
    <3>1. \A page \in ContainersHooks, rows \in SUBSET Containers :
            [page EXCEPT !.running = rows, !.loading = FALSE] \in ContainersHooks
      BY ZenonT(60) DEF ContainersHooks
    <3>2. QED
      BY Zenon, <1>a, <2>1, <3>1
  <2>3. containersCalls' = containersCalls \ {c} /\ c.kind = "list"
    BY <1>8 DEF ContainersAnswer, AnswerContainers, Answered
  <2>4. /\ containersPage'.selectedId = containersPage.selectedId
        /\ containersPage'.detailTab = containersPage.detailTab
        /\ containersPage'.late = containersPage.late
        /\ containersPage'.detail = containersPage.detail
        /\ containersPage'.stats = containersPage.stats
        /\ containersPage'.sent = containersPage.sent
        /\ containersPage'.logLines = containersPage.logLines
        /\ containersPage'.logStreams = containersPage.logStreams
        /\ containersPage'.terminals = containersPage.terminals
        /\ containersPage'.opened = containersPage.opened
        /\ containersPage'.wsRef = containersPage.wsRef
    BY <1>a, <2>1 DEF ContainersHooks
  <2>5. RequestOn("stats", containersPage.selectedId) # c
    BY <2>3 DEF RequestOn
  <2>6. QED
    BY <2>2, <2>3, <2>4, <2>5
    DEF ContainersInv, ContainersTypeOK, OpenedIsLive, StreamsBelong, LogShown, DueBelongs,
        DetailBelongs, DetailShown, StatsShown
<1>9. ASSUME NEW c \in containersCalls, ContainerActionAnswer(c) PROVE ContainersInv'
  <2>1. RequestOn("list", {}) \in ContainersCall /\ RequestOn("list", {}).kind = "list"
    BY NoContainer, RequestOnTyped DEF RequestOn
  <2>2. containersPage' = containersPage /\ c.kind = "action"
    BY <1>9 DEF ContainerActionAnswer
  <2>3. \E after \in {{RequestOn("list", {})}, {}} :
          containersCalls' = (containersCalls \ {c}) \cup after
    BY <1>9 DEF ContainerActionAnswer, AnswerContainers, Answered
  <2>4. QED
    BY <1>a, <2>1, <2>2, <2>3, OtherRequests
<1> USE <1>a, NoContainer
    DEF ContainersInv, ContainersTypeOK, OpenedIsLive, StreamsBelong, LogShown, DueBelongs,
        DetailBelongs, DetailShown, StatsShown, ContainersHooks
<1>10. ASSUME NEW c \in Containers, LogLine(c) PROVE ContainersInv'
  BY <1>10 DEF LogLine
<1>11. ASSUME NEW c \in Containers, LogError(c) PROVE ContainersInv'
  BY <1>11 DEF LogError
<1>12. ASSUME NEW c \in Containers, TerminalCloses(c) PROVE ContainersInv'
  BY ZenonT(30), <1>12 DEF TerminalCloses, Nullable
<1>13. ASSUME NEW c \in Containers, TerminalOutput(c) PROVE ContainersInv'
  BY <1>13 DEF TerminalOutput
<1>14. CASE ToggleFollow
  BY ZenonT(30), <1>14 DEF ToggleFollow, LogsEffect, Nullable
<1>15. CASE TerminalOpens
  BY <1>15 DEF TerminalOpens
<1>16. CASE HandleTermSubmit
  <2>1. containersPage.termOutput \cup containersPage.selectedId \in SUBSET Containers
    BY DEF Nullable
  <2>2. QED
    BY <1>16, <2>1 DEF HandleTermSubmit
<1>17. CASE CloseStackModal
  BY <1>17 DEF CloseStackModal
<1>18. ASSUME NEW c \in containersCalls, DetailAnswer(c) PROVE ContainersInv'
  BY <1>18, ContainerCallTyped DEF DetailAnswer, AnswerContainers, Answered, RequestOn
<1>19. ASSUME NEW c \in containersCalls, StatsAnswer(c) PROVE ContainersInv'
  <2>1. PICK of \in {c.of, {}} : containersPage' = [containersPage EXCEPT !.stats = of]
    BY <1>19 DEF StatsAnswer
  <2>2. of \in Nullable(Containers)
    <3>1. c.kind = "stats" /\ c \in ContainersCall
      BY <1>19 DEF StatsAnswer
    <3>2. c.of \in Nullable(Containers)
      BY <3>1, ContainerCallTyped
    <3>3. QED
      BY <3>2
  <2>3. containersPage' \in ContainersHooks
    BY <2>1, <2>2
  <2>4. containersCalls' = containersCalls \ {c} /\ c.kind = "stats"
    BY <1>19 DEF StatsAnswer, AnswerContainers, Answered
  <2>5. QED
    BY <2>1, <2>2, <2>3, <2>4 DEF RequestOn
<1>20. ASSUME NEW c \in containersCalls, StackModalAnswer(c) PROVE ContainersInv'
  BY <1>20, ContainerCallTyped DEF StackModalAnswer, AnswerContainers, Answered, RequestOn
<1>21. QED
  BY <1>1, <1>2, <1>3, <1>4, <1>5, <1>6, <1>7, <1>8, <1>9, <1>10, <1>11, <1>12, <1>13, <1>14,
     <1>15, <1>16, <1>17, <1>18, <1>19, <1>20
  DEF ContainersNext

-----------------------------------------------------------------------------
(* The resources page *)

\* Without doubt there is one load of the tab at most, and it will bring what there is.
LoadIsCurrent(page, calls, there) ==
  ~page.doubtful =>
    /\ \A c, d \in calls :
         c.kind = "load" /\ d.kind = "load" /\ c.tab = page.tab /\ d.tab = page.tab => c = d
    /\ \A c \in calls : c.kind = "load" /\ c.tab = page.tab => c.items = there[page.tab]
    /\ \/ page.shown[page.tab] = there[page.tab]
       \/ Loading(page.tab, calls)

ResourcesInv == ResourcesTypeOK /\ LoadIsCurrent(resourcesPage, resourcesCalls, daemon)

LEMMA ThereTyped ==
  ASSUME NEW there \in Resources, NEW tab \in Kinds
  PROVE  there[tab] \in SUBSET All[tab]
BY DEF Resources, Kinds, All

LEMMA ResourcesCallTyped ==
  /\ \A kind \in {"load", "delete", "prune"}, tab \in Kinds : \A items \in SUBSET All[tab] :
       [kind |-> kind, tab |-> tab, items |-> items] \in ResourcesCall
  /\ \A items \in SUBSET Images :
       [kind |-> "pull", tab |-> "images", items |-> items] \in ResourcesCall
  /\ \A c \in ResourcesCall : c.tab \in Kinds /\ c.items \in SUBSET All[c.tab]
  /\ \A c \in ResourcesCall : c.kind = "pull" => c.tab = "images" /\ c.items \in SUBSET Images
BY DEF ResourcesCall, All, Kinds

\* One kind of things changes.
Changed(there, tab, items) == [there EXCEPT ![tab] = items]

LEMMA ChangeTyped ==
  ASSUME NEW there \in Resources, NEW tab \in Kinds, NEW items \in SUBSET All[tab]
  PROVE  /\ Changed(there, tab, items) \in Resources
         /\ Changed(there, tab, items)[tab] = items
         /\ \A t \in Kinds : t # tab => Changed(there, tab, items)[t] = there[t]
BY DEF Changed, Resources, Kinds, All

LEMMA AcknowledgeStep ==
  ASSUME ResourcesInv, NEW c \in resourcesCalls, c.kind # "load",
         NEW page \in ResourcesHooks, page.tab = resourcesPage.tab,
         page.shown = resourcesPage.shown, page.doubtful = resourcesPage.doubtful,
         NEW items \in SUBSET All[c.tab], Acknowledge(c, page, items)
  PROVE  ResourcesInv'
<1> DEFINE load == [kind |-> "load", tab |-> c.tab, items |-> items]
<1>a. /\ resourcesPage \in ResourcesHooks /\ resourcesCalls \in SUBSET ResourcesCall
      /\ daemon \in Resources
  BY DEF ResourcesInv, ResourcesTypeOK
<1>1. c.tab \in Kinds /\ page.tab \in Kinds
  BY <1>a, ResourcesCallTyped DEF ResourcesHooks
<1>2. /\ daemon' = [daemon EXCEPT ![c.tab] = items]
      /\ resourcesCalls' = (resourcesCalls \ {c}) \cup {load}
      /\ resourcesPage' = [page EXCEPT !.doubtful = page.doubtful \/ Loading(c.tab, resourcesCalls)]
  BY DEF Acknowledge, Answered
<1>3. /\ daemon' \in Resources /\ daemon'[c.tab] = items
      /\ \A t \in Kinds : t # c.tab => daemon'[t] = daemon[t]
  <2>1. daemon' = Changed(daemon, c.tab, items)
    BY <1>2 DEF Changed
  <2>2. QED
    BY <1>a, <1>1, <2>1, ChangeTyped
<1>4. load \in ResourcesCall /\ load.kind = "load" /\ load.tab = c.tab /\ load.items = items
  BY <1>1, <1>3, ResourcesCallTyped
<1>5. /\ resourcesPage' \in ResourcesHooks
      /\ resourcesPage'.tab = page.tab /\ resourcesPage'.shown = page.shown
      /\ resourcesPage'.doubtful = (page.doubtful \/ Loading(c.tab, resourcesCalls))
  BY <1>2 DEF ResourcesHooks, Loading
<1>6. ResourcesTypeOK'
  BY <1>a, <1>2, <1>3, <1>4, <1>5 DEF ResourcesTypeOK
<1> HIDE DEF load
<1>7. ASSUME ~resourcesPage'.doubtful
      PROVE  LoadIsCurrent(resourcesPage, resourcesCalls, daemon)'
  <2>1. ~resourcesPage.doubtful /\ ~Loading(c.tab, resourcesCalls)
    BY <1>5, <1>7
  <2>2. CASE c.tab = page.tab
    BY <1>2, <1>3, <1>4, <1>5, <2>1, <2>2 DEF LoadIsCurrent, Loading
  <2>3. CASE c.tab # page.tab
    BY <1>1, <1>2, <1>3, <1>4, <1>5, <2>1, <2>3 DEF ResourcesInv, LoadIsCurrent, Loading
  <2>4. QED
    BY <2>2, <2>3
<1>8. QED
  BY <1>6, <1>7 DEF ResourcesInv, LoadIsCurrent

LEMMA LoseStep ==
  ASSUME ResourcesInv, NEW c \in resourcesCalls, NEW page \in ResourcesHooks,
         NEW items \in SUBSET All[c.tab], Lose(c, page, items)
  PROVE  ResourcesInv'
<1>1. c.tab \in Kinds
  BY ResourcesCallTyped DEF ResourcesInv, ResourcesTypeOK
<1>2. daemon' \in Resources
  <2>1. daemon \in Resources /\ daemon' \in {daemon, Changed(daemon, c.tab, items)}
    BY DEF ResourcesInv, ResourcesTypeOK, Lose, Changed
  <2>2. QED
    BY <1>1, <2>1, ChangeTyped
<1>3. resourcesPage' \in ResourcesHooks /\ resourcesPage'.doubtful
  BY DEF Lose, ResourcesHooks
<1>4. QED
  BY <1>2, <1>3 DEF ResourcesInv, ResourcesTypeOK, Lose, Answered, LoadIsCurrent

\* A step that opens or closes a dialog, and perhaps asks for a change.
LEMMA DialogStep ==
  ASSUME ResourcesInv, UNCHANGED daemon, resourcesPage' \in ResourcesHooks,
         resourcesPage'.tab = resourcesPage.tab, resourcesPage'.shown = resourcesPage.shown,
         resourcesPage'.doubtful = resourcesPage.doubtful,
         NEW asked \in SUBSET ResourcesCall, \A c \in asked : c.kind # "load",
         resourcesCalls' = resourcesCalls \cup asked
  PROVE  ResourcesInv'
BY DEF ResourcesInv, ResourcesTypeOK, LoadIsCurrent, Loading

LEMMA ResourcesStep == ResourcesInv /\ ResourcesNext => ResourcesInv'
<1> SUFFICES ASSUME ResourcesInv, ResourcesNext PROVE ResourcesInv'
  OBVIOUS
<1>a. /\ resourcesPage \in ResourcesHooks /\ resourcesCalls \in SUBSET ResourcesCall
      /\ daemon \in Resources
  BY DEF ResourcesInv, ResourcesTypeOK
<1>b. ASSUME NEW kind \in {"pull", "delete", "prune"}, NEW tab \in Kinds,
             NEW items \in SUBSET All[tab], kind = "pull" => tab = "images",
             AskResources({[kind |-> kind, tab |-> tab, items |-> items]}),
             UNCHANGED daemon, resourcesPage' \in ResourcesHooks,
             resourcesPage'.tab = resourcesPage.tab, resourcesPage'.shown = resourcesPage.shown,
             resourcesPage'.doubtful = resourcesPage.doubtful
      PROVE  ResourcesInv'
  <2> DEFINE asked == {[kind |-> kind, tab |-> tab, items |-> items]}
  <2>1. asked \in SUBSET ResourcesCall /\ \A c \in asked : c.kind # "load"
    BY <1>b, ResourcesCallTyped DEF All
  <2>2. resourcesCalls' = resourcesCalls \cup asked
    BY <1>b DEF AskResources, Sent
  <2> HIDE DEF asked
  <2>3. QED
    BY <1>b, <2>1, <2>2, DialogStep
<1>c. ASSUME UNCHANGED <<resourcesCalls, daemon>>, resourcesPage' \in ResourcesHooks,
             resourcesPage'.tab = resourcesPage.tab, resourcesPage'.shown = resourcesPage.shown,
             resourcesPage'.doubtful = resourcesPage.doubtful
      PROVE  ResourcesInv'
  BY <1>c DEF ResourcesInv, ResourcesTypeOK, LoadIsCurrent
<1>1. ASSUME NEW tab \in Kinds, SelectResourcesTab(tab) PROVE ResourcesInv'
  <2> DEFINE load == LoadData(tab)
  <2>1. load \in ResourcesCall /\ load.kind = "load" /\ load.tab = tab /\ load.items = daemon[tab]
    BY <1>a, ThereTyped, ResourcesCallTyped DEF LoadData
  <2>2. /\ resourcesCalls' = resourcesCalls \cup {load} /\ daemon' = daemon
        /\ resourcesPage' = [resourcesPage EXCEPT !.tab = tab,
                               !.doubtful = Loading(tab, resourcesCalls)]
    BY <1>1 DEF SelectResourcesTab, AskResources, Sent
  <2>3. /\ resourcesPage' \in ResourcesHooks /\ resourcesPage'.tab = tab
        /\ resourcesPage'.doubtful = Loading(tab, resourcesCalls)
    BY <1>a, <2>2 DEF ResourcesHooks, Loading
  <2> HIDE DEF load
  <2>4. QED
    BY <1>a, <2>1, <2>2, <2>3 DEF ResourcesInv, ResourcesTypeOK, LoadIsCurrent, Loading
<1>2. ASSUME NEW c \in resourcesCalls, LoadAnswer(c) PROVE ResourcesInv'
  <2>1. /\ c.tab \in Kinds /\ c.items \in SUBSET All[c.tab] /\ resourcesPage.tab \in Kinds
        /\ c.kind = "load" /\ resourcesCalls' = resourcesCalls \ {c} /\ daemon' = daemon
    BY <1>2, <1>a, ResourcesCallTyped DEF LoadAnswer, Answered, ResourcesHooks
  <2>2. CASE resourcesPage' = [resourcesPage EXCEPT !.doubtful = TRUE]
    BY <1>a, <2>1, <2>2 DEF ResourcesInv, ResourcesTypeOK, LoadIsCurrent, ResourcesHooks
  <2>3. ASSUME NEW items \in {c.items, daemon[c.tab]},
               resourcesPage' = [resourcesPage EXCEPT !.shown[c.tab] = items]
        PROVE  ResourcesInv'
    <3>1. items \in SUBSET All[c.tab]
      BY <1>a, <2>1, ThereTyped
    <3>2. resourcesPage.shown \in Resources
      BY <1>a DEF ResourcesHooks
    <3> DEFINE shown == Changed(resourcesPage.shown, c.tab, items)
    <3>3. /\ shown \in Resources /\ shown[c.tab] = items
          /\ \A t \in Kinds : t # c.tab => shown[t] = resourcesPage.shown[t]
      BY <2>1, <3>1, <3>2, ChangeTyped
    <3>4. resourcesPage' = [resourcesPage EXCEPT !.shown = shown]
      BY <1>a, <2>3 DEF Changed, ResourcesHooks
    <3> HIDE DEF shown
    <3>5. /\ resourcesPage' \in ResourcesHooks /\ resourcesPage'.tab = resourcesPage.tab
          /\ resourcesPage'.doubtful = resourcesPage.doubtful /\ resourcesPage'.shown = shown
      BY <1>a, <3>3, <3>4 DEF ResourcesHooks
    <3>6. CASE c.tab = resourcesPage.tab
      BY ZenonT(30), <1>a, <2>1, <2>3, <3>3, <3>5, <3>6
      DEF ResourcesInv, ResourcesTypeOK, LoadIsCurrent, Loading
    <3>7. CASE c.tab # resourcesPage.tab
      BY <1>a, <2>1, <3>3, <3>5, <3>7
      DEF ResourcesInv, ResourcesTypeOK, LoadIsCurrent, Loading
    <3>8. QED
      BY <3>6, <3>7
  <2>4. QED
    BY <1>2, <2>2, <2>3 DEF LoadAnswer
<1>d. \A t \in Kinds : daemon[t] \in SUBSET All[t]
  BY <1>a, ThereTyped
<1>e. \A c \in resourcesCalls : c.tab \in Kinds /\ c.items \in SUBSET All[c.tab]
  BY <1>a, ResourcesCallTyped
<1>3. CASE OpenPull \/ ClosePull \/ CloseDeleteVolume \/ OpenPrune \/ TypePrune \/ CancelPrune
  BY ZenonT(30), <1>a, <1>c, <1>3
  DEF OpenPull, ClosePull, CloseDeleteVolume, OpenPrune, TypePrune, CancelPrune, ResourcesHooks,
      Nullable
<1>4. ASSUME NEW volume \in Volumes, OpenDeleteVolume(volume) PROVE ResourcesInv'
  BY <1>a, <1>c, <1>4 DEF OpenDeleteVolume, ResourcesHooks, Nullable
<1>5. ASSUME NEW image \in Images, HandlePullImage(image) PROVE ResourcesInv'
  BY ZenonT(30), <1>a, <1>b, <1>5 DEF HandlePullImage, ResourcesHooks, Kinds, All
<1>6. ASSUME NEW image \in Images, HandleDeleteImage(image) PROVE ResourcesInv'
  BY ZenonT(30), <1>a, <1>b, <1>6 DEF HandleDeleteImage, Kinds, All
<1>7. ASSUME NEW unused \in SUBSET Images, HandlePruneImages(unused) PROVE ResourcesInv'
  BY <1>a, <1>b, <1>7 DEF HandlePruneImages, Kinds, All
<1>8. ASSUME NEW network \in Networks, HandleDeleteNetwork(network) PROVE ResourcesInv'
  BY <1>a, <1>b, <1>8 DEF HandleDeleteNetwork, Kinds, All
<1>9. CASE HandleDeleteVolume
  <2>1. resourcesPage.volumeToDelete \in SUBSET All["volumes"]
    BY <1>a DEF ResourcesHooks, Nullable, All
  <2>2. QED
    BY <1>a, <1>b, <1>9, <2>1 DEF HandleDeleteVolume, ResourcesHooks, Kinds, Nullable
<1>10. ASSUME NEW unused \in SUBSET Volumes, HandlePruneVolumes(unused) PROVE ResourcesInv'
  BY <1>a, <1>b, <1>10 DEF HandlePruneVolumes, ResourcesHooks, Kinds, All
<1>11. ASSUME NEW c \in resourcesCalls, PullAnswer(c) PROVE ResourcesInv'
  <2> DEFINE items == daemon.images \cup c.items
             done == [resourcesPage EXCEPT !.pullModalOpen = FALSE, !.pulling = FALSE]
             failed == [resourcesPage EXCEPT !.pulling = FALSE]
  <2>1. c.tab = "images" /\ items \in SUBSET All[c.tab] /\ c.kind # "load"
    BY <1>11, <1>a, ResourcesCallTyped DEF PullAnswer, Resources, All
  <2>2. /\ done \in ResourcesHooks /\ failed \in ResourcesHooks
        /\ done.tab = resourcesPage.tab /\ done.shown = resourcesPage.shown
        /\ done.doubtful = resourcesPage.doubtful
    BY <1>a DEF ResourcesHooks
  <2>3. Acknowledge(c, done, items) \/ Lose(c, failed, items)
    BY <1>11 DEF PullAnswer
  <2> HIDE DEF items, done, failed
  <2>4. QED
    BY <2>1, <2>2, <2>3, AcknowledgeStep, LoseStep
<1>12. ASSUME NEW c \in resourcesCalls, ResourceDeleted(c) PROVE ResourcesInv'
  <2> DEFINE items == daemon[c.tab] \ c.items
             done == IF c.tab = "volumes" THEN [resourcesPage EXCEPT !.volumeToDelete = {}]
                     ELSE resourcesPage
  <2>1. items \in SUBSET All[c.tab] /\ c.kind # "load"
    BY <1>12, <1>d, <1>e DEF ResourceDeleted
  <2>2. /\ done \in ResourcesHooks
        /\ done.tab = resourcesPage.tab /\ done.shown = resourcesPage.shown
        /\ done.doubtful = resourcesPage.doubtful
    BY <1>a DEF ResourcesHooks, Nullable
  <2>3. Acknowledge(c, done, items) \/ Lose(c, resourcesPage, items)
    BY <1>12 DEF ResourceDeleted
  <2> HIDE DEF items, done
  <2>4. QED
    BY <1>a, <2>1, <2>2, <2>3, AcknowledgeStep, LoseStep
<1>13. ASSUME NEW c \in resourcesCalls, ResourcePruned(c) PROVE ResourcesInv'
  <2> DEFINE items == daemon[c.tab] \ c.items
             done == IF c.tab = "volumes" THEN [resourcesPage EXCEPT !.isPruneVolumesOpen = FALSE]
                     ELSE resourcesPage
  <2>1. items \in SUBSET All[c.tab] /\ c.kind # "load"
    BY <1>13, <1>d, <1>e DEF ResourcePruned
  <2>2. /\ done \in ResourcesHooks
        /\ done.tab = resourcesPage.tab /\ done.shown = resourcesPage.shown
        /\ done.doubtful = resourcesPage.doubtful
    BY <1>a DEF ResourcesHooks
  <2>3. Acknowledge(c, done, items) \/ Lose(c, resourcesPage, items)
    BY <1>13 DEF ResourcePruned
  <2> HIDE DEF items, done
  <2>4. QED
    BY <1>a, <2>1, <2>2, <2>3, AcknowledgeStep, LoseStep
<1>14. QED
  BY <1>1, <1>2, <1>3, <1>4, <1>5, <1>6, <1>7, <1>8, <1>9, <1>10, <1>11, <1>12, <1>13
  DEF ResourcesNext

-----------------------------------------------------------------------------
(* The smaller pages *)

\* Every history that is due is of the range whose button is lit, or of one of those in late.
HistoryIsCurrent ==
  \A c \in hostCalls : c.kind = "history" => c.what \in {metricsPage.range} \cup metricsPage.late

\* A backup is asked for while there is room for one more; a list that is due is of those
\* there are.
BackupsAreCurrent ==
  /\ \A c \in hostCalls : c.kind = "backup" => host.backups < MaxBackups
  /\ ~alertsPage.doubtful => \A c \in hostCalls : c.kind = "backups" => c.what = host.backups

\* One save at a time, of what the form shows unless it was typed into since; nothing will
\* replace that unless it was saved early.
SaveIsCurrent ==
  /\ settingsPage.saving => ~settingsPage.saved
  /\ \A c, d \in hostCalls : c.kind = "store" /\ d.kind = "store" => c = d
  /\ \A c \in hostCalls : c.kind = "store" =>
       /\ settingsPage.saving
       /\ ~settingsPage.touched /\ ~settingsPage.early => c.what = settingsPage.allowedPaths
  /\ ~settingsPage.early /\ (settingsPage.saving \/ settingsPage.saved) => ~Due("settings")

HostProperties == RangeShown /\ BackupsUpToDate /\ SettingsKept
HostInv ==
  HostTypeOK /\ HistoryIsCurrent /\ BackupsAreCurrent /\ SaveIsCurrent /\ HostProperties

LEMMA HostRequestTyped ==
  /\ \A rows \in SUBSET Stacks : HostRequest("dashboard", rows) \in HostCall
  /\ \A range \in Ranges : HostRequest("history", range) \in HostCall
  /\ \A kind \in {"logs", "rules", "backup"} : HostRequest(kind, 0) \in HostCall
  /\ \A n \in 0..MaxBackups : HostRequest("backups", n) \in HostCall
  /\ \A kind \in {"settings", "store"}, paths \in Paths : HostRequest(kind, paths) \in HostCall
BY DEF HostRequest, HostCall

LEMMA HostCallTyped ==
  ASSUME NEW c \in HostCall
  PROVE  /\ c.kind = "dashboard" => c.what \in SUBSET Stacks
         /\ c.kind = "history" => c.what \in Ranges
         /\ c.kind = "backups" => c.what \in 0..MaxBackups
         /\ c.kind \in {"settings", "store"} => c.what \in Paths
BY DEF HostCall

LEMMA HostRequestFields ==
  ASSUME NEW kind, NEW what
  PROVE  HostRequest(kind, what).kind = kind /\ HostRequest(kind, what).what = what
BY DEF HostRequest

LEMMA DashboardStep == TypeInv /\ HostInv /\ DashboardNext => HostInv'
<1> SUFFICES ASSUME TypeInv, HostInv, DashboardNext PROVE HostInv'
  OBVIOUS
<1> USE HostRequestFields
    DEF HostInv, HostProperties, HostTypeOK, HistoryIsCurrent, BackupsAreCurrent, SaveIsCurrent,
        RangeShown, ChartShown, BackupsUpToDate, BackupsShown,
        SettingsKept, SavedShown, Due
<1>1. CASE TickDashboard
  <2> DEFINE new == HostRequest("dashboard", backend.stacks)
  <2>1. new \in HostCall /\ new.kind = "dashboard"
    BY HostRequestTyped DEF TypeInv, Backend
  <2>2. hostCalls' = hostCalls \cup {new}
    BY <1>1 DEF TickDashboard, AskHost, Sent, LoadDashboard
  <2> HIDE DEF new
  <2>3. QED
    BY <1>1, <2>1, <2>2 DEF TickDashboard
<1>2. ASSUME NEW c \in hostCalls, DashboardAnswer(c) PROVE HostInv'
  <2>1. c.what \in SUBSET Stacks
    BY <1>2, HostCallTyped DEF DashboardAnswer
  <2>2. dashboardPage' \in DashboardHooks
    <3>1. CASE dashboardPage' = [data |-> {c.what}, loading |-> FALSE, error |-> FALSE]
      <4>1. {c.what} \in Nullable(SUBSET Stacks)
        BY <2>1 DEF Nullable
      <4>2. QED
        BY <3>1, <4>1 DEF DashboardHooks
    <3>2. CASE dashboardPage' = [dashboardPage EXCEPT !.loading = FALSE, !.error = TRUE]
      BY <3>2 DEF DashboardHooks
    <3>3. QED
      BY <1>2, <3>1, <3>2 DEF DashboardAnswer
  <2>3. QED
    BY <1>2, <2>2 DEF DashboardAnswer, AnswerHost, Answered
<1>3. QED
  BY <1>1, <1>2 DEF DashboardNext

LEMMA MetricsStep == HostInv /\ MetricsNext => HostInv'
<1> SUFFICES ASSUME HostInv, MetricsNext PROVE HostInv'
  OBVIOUS
<1> USE HostRequestFields
    DEF HostInv, HostProperties, HostTypeOK, HistoryIsCurrent, BackupsAreCurrent, SaveIsCurrent,
        RangeShown, ChartShown, BackupsUpToDate, BackupsShown,
        SettingsKept, SavedShown, Due
<1>1. ASSUME NEW range \in Ranges, SelectRange(range) PROVE HostInv'
  <2> DEFINE new == HostRequest("history", range)
  <2>1. new \in HostCall /\ new.kind = "history" /\ new.what = range
    BY HostRequestTyped
  <2>2. hostCalls' = hostCalls \cup {new}
    BY <1>1 DEF SelectRange, AskHost, Sent
  <2>3. /\ metricsPage' \in MetricsHooks /\ metricsPage'.range = range
        /\ metricsPage'.history = metricsPage.history
        /\ metricsPage'.late = HistoriesDue(hostCalls) \ {range}
    <3>1. HistoriesDue(hostCalls) \ {range} \in SUBSET Ranges
      BY HostCallTyped DEF HistoriesDue
    <3>2. QED
      BY <1>1, <3>1 DEF SelectRange, MetricsHooks
  <2>4. \A c \in hostCalls' : c.kind = "history" => c.what \in {range} \cup metricsPage'.late
    BY <2>1, <2>2, <2>3 DEF HistoriesDue
  <2>5. QED
    BY <1>1, <2>1, <2>2, <2>3, <2>4 DEF SelectRange
<1>2. CASE TickMetrics
  <2> DEFINE new == HostRequest("history", metricsPage.range)
  <2>1. new \in HostCall /\ new.kind = "history" /\ new.what = metricsPage.range
    BY HostRequestTyped DEF MetricsHooks
  <2>2. hostCalls' = hostCalls \cup {new}
    BY <1>2 DEF TickMetrics, AskHost, Sent
  <2>3. QED
    BY <1>2, <2>1, <2>2 DEF TickMetrics
<1>3. ASSUME NEW c \in hostCalls, MetricsAnswer(c) PROVE HostInv'
  <2>1. c.what \in Ranges
    BY <1>3, HostCallTyped DEF MetricsAnswer
  <2>2. /\ metricsPage' \in MetricsHooks /\ metricsPage'.range = metricsPage.range
        /\ metricsPage'.late = metricsPage.late
        /\ metricsPage'.missed \/ metricsPage'.history = {c.what}
    <3>1. CASE metricsPage' = [metricsPage EXCEPT !.history = {c.what}]
      <4>1. {c.what} \in Nullable(Ranges)
        BY <2>1 DEF Nullable
      <4>2. QED
        BY <3>1, <4>1 DEF MetricsHooks
    <3>2. CASE metricsPage' = [metricsPage EXCEPT !.missed = TRUE]
      BY <3>2 DEF MetricsHooks
    <3>3. QED
      BY <1>3, <3>1, <3>2 DEF MetricsAnswer
  <2>3. QED
    BY <1>3, <2>2 DEF MetricsAnswer, AnswerHost, Answered
<1>4. QED
  BY <1>1, <1>2, <1>3 DEF MetricsNext

LEMMA EventsStep == HostInv /\ EventsNext => HostInv'
<1> SUFFICES ASSUME HostInv, EventsNext PROVE HostInv'
  OBVIOUS
<1> USE HostRequestFields
    DEF HostInv, HostProperties, HostTypeOK, HistoryIsCurrent, BackupsAreCurrent, SaveIsCurrent,
        RangeShown, ChartShown, BackupsUpToDate, BackupsShown,
        SettingsKept, SavedShown, Due
<1>1. ASSUME NEW tab \in {"events", "audit"}, SelectEventsTab(tab) PROVE HostInv'
  <2> DEFINE new == HostRequest("logs", 0)
  <2>1. new \in HostCall /\ new.kind = "logs"
    BY HostRequestTyped
  <2>2. hostCalls' \in {hostCalls, hostCalls \cup {new}}
    BY <1>1 DEF SelectEventsTab, AskHost, Sent
  <2>3. eventsPage' \in EventsHooks /\ eventsPage'.source # "open"
    BY <1>1 DEF SelectEventsTab, EventsHooks
  <2> HIDE DEF new
  <2>4. QED
    BY <1>1, <2>1, <2>2, <2>3 DEF SelectEventsTab
<1>2. CASE SourceOpens \/ SourceError
  <2>1. eventsPage' \in EventsHooks /\ (eventsPage'.source = "open" => eventsPage'.connected)
    <3>1. CASE SourceOpens
      BY <3>1 DEF SourceOpens, EventsHooks
    <3>2. CASE SourceError
      BY <3>2 DEF SourceError, EventsHooks
    <3>3. QED
      BY <1>2, <3>1, <3>2
  <2>2. QED
    BY <1>2, <2>1 DEF SourceOpens, SourceError
<1>3. CASE EventArrives
  <2> DEFINE n == 1 + IF eventsPage.events < KeepEvents THEN eventsPage.events ELSE KeepEvents
  <2>1. n \in 0..(KeepEvents + 1)
    BY HostAssumption DEF EventsHooks
  <2>2. eventsPage' = [eventsPage EXCEPT !.events = n]
    BY <1>3 DEF EventArrives
  <2> HIDE DEF n
  <2>3. /\ eventsPage' \in EventsHooks /\ eventsPage'.source = eventsPage.source
        /\ eventsPage'.connected = eventsPage.connected
    BY <2>1, <2>2 DEF EventsHooks
  <2>4. QED
    BY <1>3, <2>3 DEF EventArrives
<1>4. ASSUME NEW c \in hostCalls, LogsAnswer(c) PROVE HostInv'
  <2>1. /\ eventsPage' \in EventsHooks /\ eventsPage'.source = eventsPage.source
        /\ eventsPage'.connected = eventsPage.connected
    <3>1. CASE eventsPage' = [eventsPage EXCEPT !.logs = TRUE]
      BY <3>1 DEF EventsHooks
    <3>2. CASE UNCHANGED eventsPage
      BY <3>2
    <3>3. QED
      BY <1>4, <3>1, <3>2 DEF LogsAnswer
  <2>2. QED
    BY <1>4, <2>1 DEF LogsAnswer, AnswerHost, Answered
<1>5. QED
  BY <1>1, <1>2, <1>3, <1>4 DEF EventsNext

LEMMA AlertsStep == HostInv /\ AlertsNext => HostInv'
<1> SUFFICES ASSUME HostInv, AlertsNext PROVE HostInv'
  OBVIOUS
<1> USE HostRequestFields
    DEF HostInv, HostProperties, HostTypeOK, HistoryIsCurrent, BackupsAreCurrent, SaveIsCurrent,
        RangeShown, ChartShown, BackupsUpToDate, BackupsShown,
        SettingsKept, SavedShown, Due
<1>1. ASSUME NEW subTab \in SubTabs, SelectSubTab(subTab) PROVE HostInv'
  <2> DEFINE new == LoadAlerts(subTab, host.backups)
  <2>1. /\ new \in HostCall /\ new.kind \in {"rules", "backups"}
        /\ subTab = "backups" <=> new.kind = "backups"
        /\ new.kind = "backups" => new.what = host.backups
    BY HostRequestTyped DEF LoadAlerts, SubTabs
  <2>2. hostCalls' = hostCalls \cup {new}
    BY <1>1 DEF SelectSubTab, AskHost, Sent
  <2>3. /\ alertsPage' \in AlertsHooks /\ alertsPage'.subTab = subTab
        /\ alertsPage'.doubtful =
             (alertsPage.doubtful \/ (subTab = "backups" /\ \E c \in hostCalls : c.kind = "backups"))
    BY <1>1 DEF SelectSubTab, AlertsHooks
  <2> HIDE DEF new
  <2>4. HostTypeOK' /\ HistoryIsCurrent' /\ RangeShown'
    BY <1>1, <2>1, <2>2, <2>3 DEF SelectSubTab
  <2>5. SaveIsCurrent' /\ SettingsKept'
    BY <1>1, <2>1, <2>2 DEF SelectSubTab
  <2>6. BackupsAreCurrent'
    BY <1>1, <2>1, <2>2, <2>3 DEF SelectSubTab
  <2>7. BackupsUpToDate'
    BY <1>1, <2>1, <2>2, <2>3 DEF SelectSubTab, SubTabs
  <2>8. QED
    BY <2>4, <2>5, <2>6, <2>7
<1>2. ASSUME NEW c \in hostCalls, RulesAnswer(c) PROVE HostInv'
  <2>1. /\ alertsPage' \in AlertsHooks /\ alertsPage'.subTab = alertsPage.subTab
        /\ alertsPage'.backups = alertsPage.backups /\ alertsPage'.doubtful = alertsPage.doubtful
    <3>1. CASE alertsPage' = [alertsPage EXCEPT !.rules = TRUE]
      BY <3>1 DEF AlertsHooks
    <3>2. CASE UNCHANGED alertsPage
      BY <3>2
    <3>3. QED
      BY <1>2, <3>1, <3>2 DEF RulesAnswer
  <2>2. QED
    BY <1>2, <2>1 DEF RulesAnswer, AnswerHost, Answered
<1>3. ASSUME NEW c \in hostCalls, BackupsAnswer(c) PROVE HostInv'
  <2>1. c.what \in 0..MaxBackups /\ host.backups \in 0..MaxBackups
    BY <1>3, HostCallTyped DEF BackupsAnswer
  <2>2. /\ alertsPage' \in AlertsHooks /\ alertsPage'.subTab = alertsPage.subTab
        /\ \/ alertsPage'.doubtful
           \/ /\ alertsPage'.backups \in {c.what, host.backups}
              /\ alertsPage'.doubtful = alertsPage.doubtful
    <3>1. ASSUME NEW n \in {c.what, host.backups},
                 alertsPage' = [alertsPage EXCEPT !.backups = n]
          PROVE  /\ alertsPage' \in AlertsHooks /\ alertsPage'.subTab = alertsPage.subTab
                 /\ alertsPage'.backups = n /\ alertsPage'.doubtful = alertsPage.doubtful
      BY <2>1, <3>1 DEF AlertsHooks
    <3>2. CASE alertsPage' = [alertsPage EXCEPT !.doubtful = TRUE]
      BY <3>2 DEF AlertsHooks
    <3>3. QED
      BY <1>3, <3>1, <3>2 DEF BackupsAnswer
  <2>3. QED
    BY <1>3, <2>2 DEF BackupsAnswer, AnswerHost, Answered
<1>4. CASE HandleCreateBackup
  <2> DEFINE new == HostRequest("backup", 0)
  <2>1. new \in HostCall /\ new.kind = "backup"
    BY HostRequestTyped
  <2>2. hostCalls' = hostCalls \cup {new}
    BY <1>4 DEF HandleCreateBackup, AskHost, Sent
  <2>3. /\ alertsPage' \in AlertsHooks /\ alertsPage'.subTab = alertsPage.subTab
        /\ alertsPage'.backups = alertsPage.backups /\ alertsPage'.doubtful = alertsPage.doubtful
    BY <1>4 DEF HandleCreateBackup, AlertsHooks
  <2> HIDE DEF new
  <2>4. QED
    BY <1>4, <2>1, <2>2, <2>3 DEF HandleCreateBackup
<1>5. ASSUME NEW c \in hostCalls, BackupAnswer(c) PROVE HostInv'
  <2> DEFINE more == [host EXCEPT !.backups = host.backups + 1]
  <2>1. host.backups \in 0..MaxBackups /\ host.backups < MaxBackups
    BY <1>5 DEF BackupAnswer
  <2>2. /\ more \in [backups : 0..MaxBackups, paths : Paths]
        /\ more.paths = host.paths /\ more.backups = host.backups + 1
    BY <2>1, HostAssumption
  <2>3. ASSUME NEW d \in hostCalls, d # c PROVE d.kind # "backup"
    BY <1>5, <2>3 DEF BackupAnswer, HostCall
  <2> HIDE DEF more
  <2>4. CASE /\ host' = more
             /\ alertsPage' = [alertsPage EXCEPT !.backingUp = FALSE, !.backupSuccess = TRUE,
                                 !.doubtful = alertsPage.doubtful \/ Due("backups")]
             /\ AnswerHost(c, {LoadAlerts("backups", host'.backups)})
    <3> DEFINE new == LoadAlerts("backups", more.backups)
    <3>1. new \in HostCall /\ new.kind = "backups" /\ new.what = more.backups
      BY <2>2, HostRequestTyped DEF LoadAlerts
    <3>2. hostCalls' = (hostCalls \ {c}) \cup {new}
      BY <2>4 DEF AnswerHost, Answered
    <3>3. /\ alertsPage' \in AlertsHooks
          /\ alertsPage'.doubtful = (alertsPage.doubtful \/ Due("backups"))
      BY <2>4 DEF AlertsHooks
    <3> HIDE DEF new
    <3>4. HostTypeOK' /\ HistoryIsCurrent' /\ RangeShown'
      BY <1>5, <2>2, <2>4, <3>1, <3>2, <3>3 DEF BackupAnswer
    <3>5. SaveIsCurrent' /\ SettingsKept'
      BY <1>5, <2>2, <2>4, <3>1, <3>2 DEF BackupAnswer
    <3>6. BackupsAreCurrent'
      BY <2>2, <2>3, <2>4, <3>1, <3>2, <3>3
    <3>7. BackupsUpToDate'
      BY <3>1, <3>2
    <3>8. QED
      BY <3>4, <3>5, <3>6, <3>7
  <2>5. CASE /\ host' \in {host, more}
             /\ alertsPage' = [alertsPage EXCEPT !.backingUp = FALSE, !.doubtful = TRUE]
             /\ AnswerHost(c, {})
    <3>1. hostCalls' = hostCalls \ {c}
      BY <2>5 DEF AnswerHost, Answered
    <3>2. alertsPage' \in AlertsHooks /\ alertsPage'.doubtful
      BY <2>5 DEF AlertsHooks
    <3>3. QED
      BY <1>5, <2>2, <2>3, <2>5, <3>1, <3>2 DEF BackupAnswer
  <2>6. QED
    BY <1>5, <2>4, <2>5 DEF BackupAnswer, more
<1>6. QED
  BY <1>1, <1>2, <1>3, <1>4, <1>5 DEF AlertsNext

LEMMA SettingsStep == HostInv /\ SettingsNext => HostInv'
<1> SUFFICES ASSUME HostInv, SettingsNext PROVE HostInv'
  OBVIOUS
<1> USE HostRequestFields
    DEF HostInv, HostProperties, HostTypeOK, HistoryIsCurrent, BackupsAreCurrent, SaveIsCurrent,
        RangeShown, ChartShown, BackupsUpToDate, BackupsShown,
        SettingsKept, SavedShown, Due
<1>1. ASSUME NEW c \in hostCalls, SettingsAnswer(c) PROVE HostInv'
  <2>1. c.what \in Paths /\ c.kind = "settings"
    BY <1>1, HostCallTyped DEF SettingsAnswer
  <2>2. /\ settingsPage' \in SettingsHooks
        /\ settingsPage'.saving = settingsPage.saving /\ settingsPage'.saved = settingsPage.saved
        /\ settingsPage'.touched = settingsPage.touched
        /\ \/ settingsPage'.early
           \/ settingsPage'.early = settingsPage.early
    <3>1. CASE settingsPage' = [settingsPage EXCEPT !.allowedPaths =
                                  IF c.what = "blank" THEN settingsPage.allowedPaths ELSE c.what]
      BY <2>1, <3>1 DEF SettingsHooks
    <3>2. CASE settingsPage' = [settingsPage EXCEPT !.early = TRUE]
      BY <3>2 DEF SettingsHooks
    <3>3. QED
      BY <1>1, <3>1, <3>2 DEF SettingsAnswer
  <2>3. QED
    BY <1>1, <2>1, <2>2 DEF SettingsAnswer, AnswerHost, Answered
<1>2. ASSUME NEW paths \in {"blank", "new"}, TypePaths(paths) PROVE HostInv'
  <2>1. /\ settingsPage' \in SettingsHooks /\ settingsPage'.touched
        /\ settingsPage'.saving = settingsPage.saving /\ settingsPage'.saved = settingsPage.saved
        /\ settingsPage'.early = settingsPage.early
    BY <1>2 DEF TypePaths, SettingsHooks, Paths
  <2>2. QED
    BY <1>2, <2>1 DEF TypePaths
<1>3. CASE HandleSave
  <2> DEFINE new == HostRequest("store", settingsPage.allowedPaths)
  <2>1. new \in HostCall /\ new.kind = "store" /\ new.what = settingsPage.allowedPaths
    BY HostRequestTyped DEF SettingsHooks
  <2>2. hostCalls' = hostCalls \cup {new} /\ ~settingsPage.saving
    BY <1>3 DEF HandleSave, AskHost, Sent, SaveSettingsOffered
  <2>3. /\ settingsPage' \in SettingsHooks /\ settingsPage'.saving /\ ~settingsPage'.saved
        /\ settingsPage'.allowedPaths = settingsPage.allowedPaths
        /\ settingsPage'.early = (settingsPage.early \/ \E c \in hostCalls : c.kind = "settings")
    BY <1>3 DEF HandleSave, SettingsHooks
  <2> HIDE DEF new
  <2>4. QED
    BY ZenonT(30), <1>3, <2>1, <2>2, <2>3 DEF HandleSave
<1>4. CASE SavedExpires
  <2>1. /\ settingsPage' \in SettingsHooks /\ ~settingsPage'.saved
        /\ settingsPage'.saving = settingsPage.saving
        /\ settingsPage'.touched = settingsPage.touched
        /\ settingsPage'.early = settingsPage.early
        /\ settingsPage'.allowedPaths = settingsPage.allowedPaths
    BY <1>4 DEF SavedExpires, SettingsHooks
  <2>2. QED
    BY <1>4, <2>1 DEF SavedExpires
<1>5. ASSUME NEW c \in hostCalls, SaveSettingsAnswer(c) PROVE HostInv'
  <2> DEFINE stored == [host EXCEPT !.paths = c.what]
  <2>1. c.kind = "store" /\ c.what \in Paths
    BY <1>5, HostCallTyped DEF SaveSettingsAnswer
  <2>2. /\ stored \in [backups : 0..MaxBackups, paths : Paths]
        /\ stored.paths = c.what /\ stored.backups = host.backups
    BY <2>1
  <2> HIDE DEF stored
  <2>3. hostCalls' = hostCalls \ {c}
    BY <1>5 DEF SaveSettingsAnswer, AnswerHost, Answered
  <2>4. CASE /\ host' = stored
             /\ settingsPage' = [settingsPage EXCEPT !.saving = FALSE, !.saved = TRUE]
    <3>1. /\ settingsPage' \in SettingsHooks /\ ~settingsPage'.saving
          /\ settingsPage'.touched = settingsPage.touched
          /\ settingsPage'.early = settingsPage.early
          /\ settingsPage'.allowedPaths = settingsPage.allowedPaths
      BY <2>4 DEF SettingsHooks
    <3>2. QED
      BY <1>5, <2>1, <2>2, <2>3, <2>4, <3>1 DEF SaveSettingsAnswer
  <2>5. CASE /\ host' \in {host, stored}
             /\ settingsPage' = [settingsPage EXCEPT !.saving = FALSE]
    <3>1. /\ settingsPage' \in SettingsHooks /\ ~settingsPage'.saving
          /\ settingsPage'.saved = settingsPage.saved
          /\ settingsPage'.touched = settingsPage.touched
          /\ settingsPage'.early = settingsPage.early
          /\ settingsPage'.allowedPaths = settingsPage.allowedPaths
      BY <2>5 DEF SettingsHooks
    <3>2. QED
      BY <1>5, <2>1, <2>2, <2>3, <2>5, <3>1 DEF SaveSettingsAnswer
  <2>6. QED
    BY <1>5, <2>4, <2>5 DEF SaveSettingsAnswer, stored
<1>6. QED
  BY <1>1, <1>2, <1>3, <1>4, <1>5 DEF SettingsNext

-----------------------------------------------------------------------------
(* Links *)

\* Requests whose handlers load a list, and those that may end in a stack being set active.
Loads == {"list", "save", "restore", "action", "poll", "container", "create", "delete"}
Returns == {"save", "restore", "action", "poll", "ended"}

\* While there is a link, every list that is due, or will be, has that link.
ListsFollowLink ==
  nav # {} =>
    /\ \A c \in stacksCalls : c.kind \in Loads => c.link = nav
    /\ \A s \in stacksPage.polled : stacksPage.pollLinks[s] = nav

\* Until the user leaves the stack of the link, nothing else is active or will be set so.
LinkKept ==
  nav # {} /\ ~stacksPage.strayed =>
    /\ stacksPage.activeStack \subseteq nav
    /\ \A c \in stacksCalls : c.kind \in Returns => c.of \subseteq nav
    /\ stacksPage.polled \subseteq nav

LinkInv == ListsFollowLink /\ LinkKept /\ LinkOpens

\* A step that selects nothing, or sets active what a request is about.
LEMMA LinkStays ==
  ASSUME TypeInv, LinkInv, nav' = nav,
         stacksPage'.strayed = stacksPage.strayed, stacksPage'.stacks = stacksPage.stacks,
         \/ stacksPage'.activeStack = stacksPage.activeStack
         \/ \E c \in stacksCalls :
              c.kind \in Returns /\ stacksPage'.activeStack = c.of /\ c.of # {},
         \A s \in stacksPage'.polled :
           \/ s \in stacksPage.polled /\ stacksPage'.pollLinks[s] = stacksPage.pollLinks[s]
           \/ \E c \in stacksCalls :
                c.kind = "action" /\ s \in c.of /\ stacksPage'.pollLinks[s] = c.link,
         \A d \in stacksCalls' :
           \/ d \in stacksCalls
           \/ /\ \/ d.kind \notin Loads
                 \/ d.link = nav
                 \/ \E c \in stacksCalls : c.kind \in Loads /\ d.link = c.link
                 \/ \E s \in stacksPage.polled : d.link = stacksPage.pollLinks[s]
              /\ \/ d.kind \notin Returns
                 \/ d.of \subseteq stacksPage.activeStack
                 \/ d.of \subseteq stacksPage.polled
                 \/ \E c \in stacksCalls : c.kind \in Returns /\ d.of \subseteq c.of
  PROVE  LinkInv'
<1>1. ListsFollowLink'
  <2> SUFFICES ASSUME nav # {} PROVE ListsFollowLink'
    BY DEF ListsFollowLink
  <2>1. /\ \A c \in stacksCalls : c.kind \in Loads => c.link = nav
        /\ \A s \in stacksPage.polled : stacksPage.pollLinks[s] = nav
    BY DEF LinkInv, ListsFollowLink
  <2>2. \A d \in stacksCalls' : d.kind \in Loads => d.link = nav
    BY <2>1
  <2>3. \A s \in stacksPage'.polled : stacksPage'.pollLinks[s] = nav
    BY <2>1 DEF Loads
  <2>4. QED
    BY <2>2, <2>3 DEF ListsFollowLink
<1>2. LinkKept'
  <2> SUFFICES ASSUME nav # {}, ~stacksPage.strayed PROVE LinkKept'
    BY DEF LinkKept
  <2>1. /\ stacksPage.activeStack \subseteq nav
        /\ \A c \in stacksCalls : c.kind \in Returns => c.of \subseteq nav
        /\ stacksPage.polled \subseteq nav
    BY DEF LinkInv, LinkKept
  <2>2. stacksPage'.activeStack \subseteq nav
    BY <2>1
  <2>3. \A d \in stacksCalls' : d.kind \in Returns => d.of \subseteq nav
    BY <2>1
  <2>4. stacksPage'.polled \subseteq nav
    BY <2>1 DEF Returns
  <2>5. QED
    BY <2>2, <2>3, <2>4 DEF LinkKept
<1>3. LinkOpens'
  <2> SUFFICES ASSUME NEW s \in stacksPage.stacks, nav = {s}, ~stacksPage.strayed
               PROVE  stacksPage'.activeStack = {s}
    BY DEF LinkOpens, OverviewShown
  <2>1. stacksPage.activeStack = {s}
    BY DEF LinkInv, LinkOpens, OverviewShown
  <2>2. ASSUME NEW c \in stacksCalls, c.kind \in Returns, stacksPage'.activeStack = c.of, c.of # {}
        PROVE  stacksPage'.activeStack = {s}
    <3>1. c.of \subseteq {s}
      BY <2>2 DEF LinkInv, LinkKept
    <3>2. QED
      BY <2>2, <3>1
  <2>3. QED
    BY <2>1, <2>2
<1>4. QED
  BY <1>1, <1>2, <1>3 DEF LinkInv

\* A stack is selected, by the user, by a list that has the link or because it was created.
LEMMA LinkSelected ==
  ASSUME TypeInv, LinkInv, nav' = nav, NEW page \in StacksHooks, NEW s \in Stacks, NEW due,
         page.polled = stacksPage.polled, page.pollLinks = stacksPage.pollLinks,
         page.strayed = stacksPage.strayed,
         stacksPage' = Selected(page, s, due),
         \A d \in stacksCalls' :
           \/ d \in stacksCalls
           \/ d.kind = "compose"
           \/ d.kind = "list" /\ \E c \in stacksCalls : c.kind \in Loads /\ d.link = c.link
  PROVE  LinkInv'
<1>1. /\ stacksPage'.activeStack = {s}
      /\ stacksPage'.polled = stacksPage.polled /\ stacksPage'.pollLinks = stacksPage.pollLinks
      /\ stacksPage'.strayed = (stacksPage.strayed \/ nav \notin {{}, {s}})
  BY DEF Selected, StacksHooks
<1>2. ListsFollowLink'
  BY <1>1 DEF LinkInv, ListsFollowLink, Loads
<1>3. LinkKept'
  BY <1>1 DEF LinkInv, LinkKept, Returns
<1>4. LinkOpens'
  BY <1>1 DEF LinkOpens, OverviewShown
<1>5. QED
  BY <1>2, <1>3, <1>4 DEF LinkInv

\* What comes back is the stack that was asked about.
LEMMA StackSetActive ==
  ASSUME TypeInv, NEW c \in stacksCalls,
         SaveAnswer(c) \/ RestoreAnswer(c) \/ EndedStackAnswer(c)
  PROVE  /\ nav' = nav /\ c.kind \in Returns
         /\ stacksPage'.strayed = stacksPage.strayed
         /\ stacksPage'.stacks = stacksPage.stacks
         /\ stacksPage'.polled = stacksPage.polled
         /\ stacksPage'.pollLinks = stacksPage.pollLinks
         /\ \/ stacksPage'.activeStack = stacksPage.activeStack
            \/ stacksPage'.activeStack = c.of /\ c.of # {}
<1> DEFINE Same == /\ stacksPage'.strayed = stacksPage.strayed
                   /\ stacksPage'.stacks = stacksPage.stacks
                   /\ stacksPage'.polled = stacksPage.polled
                   /\ stacksPage'.pollLinks = stacksPage.pollLinks
                   /\ \/ stacksPage'.activeStack = stacksPage.activeStack
                      \/ stacksPage'.activeStack = c.of /\ c.of # {}
<1>a. stacksPage \in StacksHooks /\ c \in StacksCall
  BY DEF TypeInv, StacksTypeOK
<1>b. \A s \in c.of : c.of = {s}
  BY <1>a, CallTyped DEF Nullable
<1>1. \/ stacksPage' = stacksPage
      \/ stacksPage' = [stacksPage EXCEPT !.saving = FALSE]
      \/ \E s \in c.of : stacksPage' = [Shown(stacksPage, s) EXCEPT !.reports = {s}]
      \/ \E s \in c.of : stacksPage' = [Shown(stacksPage, s) EXCEPT !.composeContent = {s}]
      \/ \E s \in c.of : stacksPage' = Shown(stacksPage, s)
  <2>1. CASE SaveAnswer(c)
    BY Zenon, <2>1 DEF SaveAnswer
  <2>2. CASE RestoreAnswer(c)
    BY Zenon, <2>2 DEF RestoreAnswer
  <2>3. CASE EndedStackAnswer(c)
    BY Zenon, <2>3 DEF EndedStackAnswer
  <2>4. QED
    BY <2>1, <2>2, <2>3
<1>2. ASSUME stacksPage' = stacksPage PROVE Same
  BY <1>2
<1>3. ASSUME stacksPage' = [stacksPage EXCEPT !.saving = FALSE] PROVE Same
  BY <1>a, <1>3 DEF StacksHooks
<1>4. ASSUME NEW s \in c.of, stacksPage' = [Shown(stacksPage, s) EXCEPT !.reports = {s}]
      PROVE  Same
  BY <1>a, <1>b, <1>4 DEF StacksHooks, Shown
<1>5. ASSUME NEW s \in c.of, stacksPage' = [Shown(stacksPage, s) EXCEPT !.composeContent = {s}]
      PROVE  Same
  BY <1>a, <1>b, <1>5 DEF StacksHooks, Shown
<1>6. ASSUME NEW s \in c.of, stacksPage' = Shown(stacksPage, s) PROVE Same
  BY <1>a, <1>b, <1>6 DEF StacksHooks, Shown
<1> HIDE DEF Same
<1>7. Same
  BY Zenon, <1>1, <1>2, <1>3, <1>4, <1>5, <1>6
<1>8. nav' = nav /\ c.kind \in Returns
  BY DEF SaveAnswer, RestoreAnswer, EndedStackAnswer, Returns
<1>9. QED
  BY <1>7, <1>8 DEF Same

LEMMA LinkStep == TypeInv /\ LinkInv /\ StacksNext => LinkInv'
<1> SUFFICES ASSUME TypeInv, LinkInv, StacksNext PROVE LinkInv'
  OBVIOUS
<1>a. stacksPage \in StacksHooks /\ stacksCalls \in SUBSET StacksCall
  BY DEF TypeInv, StacksTypeOK
<1> DEFINE CallsFollow ==
             \A d \in stacksCalls' :
               \/ d \in stacksCalls
               \/ /\ \/ d.kind \notin Loads
                     \/ d.link = nav
                     \/ \E c \in stacksCalls : c.kind \in Loads /\ d.link = c.link
                     \/ \E s \in stacksPage.polled : d.link = stacksPage.pollLinks[s]
                  /\ \/ d.kind \notin Returns
                     \/ d.of \subseteq stacksPage.activeStack
                     \/ d.of \subseteq stacksPage.polled
                     \/ \E c \in stacksCalls : c.kind \in Returns /\ d.of \subseteq c.of
           PageStays ==
             /\ nav' = nav
             /\ stacksPage'.strayed = stacksPage.strayed
             /\ stacksPage'.stacks = stacksPage.stacks
             /\ stacksPage'.activeStack = stacksPage.activeStack
             /\ \A s \in stacksPage'.polled :
                  s \in stacksPage.polled /\ stacksPage'.pollLinks[s] = stacksPage.pollLinks[s]
<1>b. ASSUME CallsFollow, PageStays PROVE LinkInv'
  BY <1>b, LinkStays
<1> USE DEF Answer, Answered, Ask, Sent, Request, Clicked, List, LoadStacks
<1>1. CASE TickStacks
  <2>1. CallsFollow
    BY <1>1 DEF TickStacks, ListStacks, Loads, Returns
  <2>2. PageStays
    BY <1>a, <1>1 DEF TickStacks, StacksHooks
  <2>3. QED
    BY <1>b, <2>1, <2>2
<1>2. ASSUME NEW s \in Stacks, SelectStack(s) PROVE LinkInv'
  <2>1. /\ nav' = nav /\ stacksPage' = Selected(stacksPage, s, stacksCalls)
        /\ \A d \in stacksCalls' : d \in stacksCalls \/ d.kind = "compose"
    BY <1>2 DEF SelectStack
  <2>2. QED
    BY <1>a, <2>1, LinkSelected
<1>3. ASSUME NEW s \in Stacks, HandleCreateStack(s) PROVE LinkInv'
  <2>1. CallsFollow
    BY <1>3 DEF HandleCreateStack, Loads, Returns
  <2>2. PageStays
    BY <1>a, <1>3 DEF HandleCreateStack, StacksHooks
  <2>3. QED
    BY <1>b, <2>1, <2>2
<1>4. ASSUME NEW s \in Stacks, JobEnds(s) PROVE LinkInv'
  <2>1. CallsFollow
    BY <1>4 DEF JobEnds, Loads, Returns
  <2>2. PageStays
    BY <1>a, <1>4 DEF JobEnds, StacksHooks
  <2>3. QED
    BY <1>b, <2>1, <2>2
<1>5. ASSUME NEW s \in Stacks, TickPoll(s) PROVE LinkInv'
  <2>1. CallsFollow
    BY <1>5 DEF TickPoll, Loads, Returns
  <2>2. PageStays
    BY <1>a, <1>5 DEF TickPoll, StacksHooks
  <2>3. QED
    BY <1>b, <2>1, <2>2
<1>6. CASE HandleSaveCompose
  <2>1. CallsFollow
    BY <1>6 DEF HandleSaveCompose, Loads, Returns
  <2>2. PageStays
    BY <1>a, <1>6 DEF HandleSaveCompose, StacksHooks
  <2>3. QED
    BY <1>b, <2>1, <2>2
<1>7. CASE HandleRestoreRevision
  <2>1. CallsFollow
    BY <1>7 DEF HandleRestoreRevision, Loads, Returns
  <2>2. PageStays
    BY <1>a, <1>7 DEF HandleRestoreRevision, StacksHooks
  <2>3. QED
    BY <1>b, <2>1, <2>2
<1>8. CASE HandleStackAction
  <2>1. CallsFollow
    BY <1>8 DEF HandleStackAction, Loads, Returns
  <2>2. PageStays
    BY <1>a, <1>8 DEF HandleStackAction, StacksHooks
  <2>3. QED
    BY <1>b, <2>1, <2>2
<1>9. CASE HandleOpenPreview
  <2>1. CallsFollow
    BY <1>9 DEF HandleOpenPreview, Loads, Returns
  <2>2. PageStays
    BY <1>a, <1>9 DEF HandleOpenPreview, StacksHooks
  <2>3. QED
    BY <1>b, <2>1, <2>2
<1>10. CASE ClosePreview
  <2>1. CallsFollow
    BY <1>10 DEF ClosePreview, Loads, Returns
  <2>2. PageStays
    BY <1>a, <1>10 DEF ClosePreview, StacksHooks
  <2>3. QED
    BY <1>b, <2>1, <2>2
<1>11. CASE ConfirmDeploy
  <2>1. CallsFollow
    BY <1>11 DEF ConfirmDeploy, Loads, Returns
  <2>2. PageStays
    BY <1>a, <1>11 DEF ConfirmDeploy, StacksHooks
  <2>3. QED
    BY <1>b, <2>1, <2>2
<1>12. CASE RestartContainer
  <2>1. CallsFollow
    BY <1>12 DEF RestartContainer, Loads, Returns
  <2>2. PageStays
    BY <1>a, <1>12 DEF RestartContainer, StacksHooks
  <2>3. QED
    BY <1>b, <2>1, <2>2
<1>13. CASE HandleDeleteStack
  <2>1. CallsFollow
    BY <1>13 DEF HandleDeleteStack, Loads, Returns
  <2>2. PageStays
    BY <1>a, <1>13 DEF HandleDeleteStack, StacksHooks
  <2>3. QED
    BY <1>b, <2>1, <2>2
<1>14. ASSUME NEW c \in stacksCalls, ListAnswer(c) PROVE LinkInv'
  <2>1. PICK rows \in {c.arg, backend.stacks} :
          LET page == [stacksPage EXCEPT !.stacks = rows]
          IN  \/ c.link \cap rows = {} /\ stacksPage' = page /\ Answer(c, {})
              \/ \E s \in c.link \cap rows :
                   /\ stacksPage' = Selected(page, s, stacksCalls \ {c})
                   /\ Answer(c, {Request("compose", {s})})
    BY <1>14 DEF ListAnswer
  <2> DEFINE page == [stacksPage EXCEPT !.stacks = rows]
  <2>2. rows \in SUBSET Stacks
    BY <1>a, CallTyped DEF TypeInv, Backend
  <2>3. /\ page \in StacksHooks /\ page.stacks = rows
        /\ page.polled = stacksPage.polled /\ page.pollLinks = stacksPage.pollLinks
        /\ page.strayed = stacksPage.strayed /\ page.activeStack = stacksPage.activeStack
    BY <1>a, <2>2 DEF StacksHooks
  <2>4. nav' = nav /\ c.kind = "list"
    BY <1>14 DEF ListAnswer
  <2> HIDE DEF page
  <2>5. CASE c.link \cap rows = {} /\ stacksPage' = page /\ Answer(c, {})
    <3>1. stacksCalls' \subseteq stacksCalls
      BY <2>5
    <3>2. ListsFollowLink' /\ LinkKept'
      BY <2>3, <2>4, <2>5, <3>1 DEF LinkInv, ListsFollowLink, LinkKept
    <3>3. nav # {} => c.link = nav
      BY <2>4 DEF LinkInv, ListsFollowLink, Loads
    <3>4. LinkOpens'
      BY <2>3, <2>4, <2>5, <3>3 DEF LinkOpens
    <3>5. QED
      BY <3>2, <3>4 DEF LinkInv
  <2>6. ASSUME NEW s \in c.link \cap rows, stacksPage' = Selected(page, s, stacksCalls \ {c}),
               Answer(c, {Request("compose", {s})})
        PROVE  LinkInv'
    <3>1. s \in Stacks
      BY <2>2
    <3>2. \A d \in stacksCalls' : d \in stacksCalls \/ d.kind = "compose"
      BY <2>6
    <3>3. QED
      BY <2>3, <2>4, <2>6, <3>1, <3>2, LinkSelected
  <2>7. QED
    BY <2>1, <2>5, <2>6 DEF page
<1>15. ASSUME NEW c \in stacksCalls, ListFails(c) PROVE LinkInv'
  <2>1. CallsFollow
    BY <1>15 DEF ListFails, Loads, Returns
  <2>2. PageStays
    BY <1>a, <1>15 DEF ListFails, StacksHooks
  <2>3. QED
    BY <1>b, <2>1, <2>2
<1>16. ASSUME NEW c \in stacksCalls, ComposeAnswer(c) PROVE LinkInv'
  <2>1. CallsFollow
    BY <1>16 DEF ComposeAnswer, Loads, Returns
  <2>2. PageStays
    BY <1>a, <1>16 DEF ComposeAnswer, StacksHooks
  <2>3. QED
    BY <1>b, <2>1, <2>2
<1>17. ASSUME NEW c \in stacksCalls, ReportsAnswer(c) PROVE LinkInv'
  <2>1. CallsFollow
    BY <1>17 DEF ReportsAnswer, Loads, Returns
  <2>2. PageStays
    BY <1>a, <1>17 DEF ReportsAnswer, StacksHooks
  <2>3. QED
    BY <1>b, <2>1, <2>2
<1>18. ASSUME NEW c \in stacksCalls, SaveAnswer(c) PROVE LinkInv'
  <2>1. CallsFollow
    <3>1. /\ \A d \in stacksCalls' : d \in stacksCalls \/ d = LoadStacks(c) \/ d = Request("saved", c.of)
          /\ c.kind \in Loads
      BY <1>18 DEF SaveAnswer, Loads
    <3>2. LoadStacks(c).kind = "list" /\ LoadStacks(c).link = c.link
      OBVIOUS
    <3>3. Request("saved", c.of).kind = "saved" /\ Request("saved", c.of).of = c.of
      OBVIOUS
    <3>4. c.kind \in Returns
      BY <1>18 DEF SaveAnswer, Returns
    <3>5. QED
      BY <3>1, <3>2, <3>3, <3>4 DEF Loads, Returns
  <2>2. /\ nav' = nav /\ c.kind \in Returns
        /\ stacksPage'.strayed = stacksPage.strayed
        /\ stacksPage'.stacks = stacksPage.stacks
        /\ stacksPage'.polled = stacksPage.polled
        /\ stacksPage'.pollLinks = stacksPage.pollLinks
        /\ \/ stacksPage'.activeStack = stacksPage.activeStack
           \/ stacksPage'.activeStack = c.of /\ c.of # {}
    BY <1>18, StackSetActive
  <2>3. QED
    BY <2>1, <2>2, LinkStays
<1>19. ASSUME NEW c \in stacksCalls, SavedRevisionsAnswer(c) PROVE LinkInv'
  <2>1. CallsFollow
    BY <1>19 DEF SavedRevisionsAnswer, Loads, Returns
  <2>2. PageStays
    BY <1>a, <1>19 DEF SavedRevisionsAnswer, StacksHooks
  <2>3. QED
    BY <1>b, <2>1, <2>2
<1>20. ASSUME NEW c \in stacksCalls, RestoreAnswer(c) PROVE LinkInv'
  <2>1. CallsFollow
    <3>1. /\ \A d \in stacksCalls' : d \in stacksCalls \/ d = LoadStacks(c) \/ d = Request("restored", c.of)
          /\ c.kind \in Loads
      BY <1>20 DEF RestoreAnswer, Loads
    <3>2. LoadStacks(c).kind = "list" /\ LoadStacks(c).link = c.link
      OBVIOUS
    <3>3. Request("restored", c.of).kind = "restored" /\ Request("restored", c.of).of = c.of
      OBVIOUS
    <3>4. c.kind \in Returns
      BY <1>20 DEF RestoreAnswer, Returns
    <3>5. QED
      BY <3>1, <3>2, <3>3, <3>4 DEF Loads, Returns
  <2>2. /\ nav' = nav /\ c.kind \in Returns
        /\ stacksPage'.strayed = stacksPage.strayed
        /\ stacksPage'.stacks = stacksPage.stacks
        /\ stacksPage'.polled = stacksPage.polled
        /\ stacksPage'.pollLinks = stacksPage.pollLinks
        /\ \/ stacksPage'.activeStack = stacksPage.activeStack
           \/ stacksPage'.activeStack = c.of /\ c.of # {}
    BY <1>20, StackSetActive
  <2>3. QED
    BY <2>1, <2>2, LinkStays
<1>21. ASSUME NEW c \in stacksCalls, RestoredSecurityAnswer(c) PROVE LinkInv'
  <2>1. CallsFollow
    BY <1>21 DEF RestoredSecurityAnswer, Loads, Returns
  <2>2. PageStays
    BY <1>a, <1>21 DEF RestoredSecurityAnswer, StacksHooks
  <2>3. QED
    BY <1>b, <2>1, <2>2
<1>22. ASSUME NEW c \in stacksCalls, PreviewAnswer(c) PROVE LinkInv'
  <2>1. CallsFollow
    BY <1>22 DEF PreviewAnswer, Loads, Returns
  <2>2. PageStays
    BY <1>a, <1>22 DEF PreviewAnswer, StacksHooks
  <2>3. QED
    BY <1>b, <2>1, <2>2
<1>23. ASSUME NEW c \in stacksCalls, ActionAnswer(c) PROVE LinkInv'
  <2>1. CallsFollow
    BY <1>23 DEF ActionAnswer, Loads, Returns
  <2>2. CASE stacksPage' = stacksPage
    <3>1. nav' = nav
      BY <1>23 DEF ActionAnswer
    <3>2. QED
      BY <1>b, <2>1, <2>2, <3>1
  <2>3. CASE stacksPage' # stacksPage
    <3>1. /\ stacksPage'.strayed = stacksPage.strayed
          /\ stacksPage'.stacks = stacksPage.stacks
          /\ stacksPage'.activeStack = stacksPage.activeStack
          /\ stacksPage'.polled = stacksPage.polled \cup c.of
          /\ stacksPage'.pollLinks = LinksOf(stacksPage.pollLinks, c.of, c.link)
      BY <1>23, <2>3, ActionPage
    <3>2. nav' = nav /\ c.kind = "action"
      BY <1>23 DEF ActionAnswer
    <3>3. \A s \in stacksPage'.polled :
            \/ s \in stacksPage.polled /\ stacksPage'.pollLinks[s] = stacksPage.pollLinks[s]
            \/ s \in c.of /\ stacksPage'.pollLinks[s] = c.link
      <4>1. stacksPage.polled \cup c.of \subseteq Stacks
        BY <1>a, CallTyped DEF StacksHooks, Nullable
      <4>2. QED
        BY <3>1, <4>1 DEF LinksOf
    <3>4. QED
      BY <2>1, <3>1, <3>2, <3>3, LinkStays
  <2>4. QED
    BY <2>2, <2>3
<1>24. ASSUME NEW c \in stacksCalls, EndedStackAnswer(c) PROVE LinkInv'
  <2>1. CallsFollow
    BY <1>24 DEF EndedStackAnswer, Loads, Returns
  <2>2. /\ nav' = nav /\ c.kind \in Returns
        /\ stacksPage'.strayed = stacksPage.strayed
        /\ stacksPage'.stacks = stacksPage.stacks
        /\ stacksPage'.polled = stacksPage.polled
        /\ stacksPage'.pollLinks = stacksPage.pollLinks
        /\ \/ stacksPage'.activeStack = stacksPage.activeStack
           \/ stacksPage'.activeStack = c.of /\ c.of # {}
    BY <1>24, StackSetActive
  <2>3. QED
    BY <2>1, <2>2, LinkStays
<1>25. ASSUME NEW c \in stacksCalls, ContainerAnswer(c) PROVE LinkInv'
  <2>1. CallsFollow
    <3>1. /\ \A d \in stacksCalls' : d \in stacksCalls \/ d = LoadStacks(c)
          /\ c.kind \in Loads
      BY <1>25 DEF ContainerAnswer, Loads
    <3>2. LoadStacks(c).kind = "list" /\ LoadStacks(c).link = c.link
      OBVIOUS
    <3>3. QED
      BY <3>1, <3>2 DEF Returns
  <2>2. PageStays
    BY <1>a, <1>25 DEF ContainerAnswer, StacksHooks
  <2>3. QED
    BY <1>b, <2>1, <2>2
<1>26. ASSUME NEW c \in stacksCalls, PollSaysRunning(c) PROVE LinkInv'
  <2>1. CallsFollow
    BY <1>26 DEF PollSaysRunning, Loads, Returns
  <2>2. PageStays
    BY <1>a, <1>26 DEF PollSaysRunning, StacksHooks
  <2>3. QED
    BY <1>b, <2>1, <2>2
<1>27. ASSUME NEW c \in stacksCalls, PollSaysOver(c) PROVE LinkInv'
  <2>1. CallsFollow
    <3>1. /\ \A d \in stacksCalls' : d \in stacksCalls \/ d = LoadStacks(c) \/ d = Request("ended", c.of)
          /\ c.kind \in Loads
      BY <1>27 DEF PollSaysOver, Loads
    <3>2. LoadStacks(c).kind = "list" /\ LoadStacks(c).link = c.link
      OBVIOUS
    <3>3. Request("ended", c.of).kind = "ended" /\ Request("ended", c.of).of = c.of
      OBVIOUS
    <3>4. c.kind \in Returns
      BY <1>27 DEF PollSaysOver, Returns
    <3>5. QED
      BY <3>1, <3>2, <3>3, <3>4 DEF Loads, Returns
  <2>2. PageStays
    <3>1. /\ nav' = nav
          /\ stacksPage'.strayed = stacksPage.strayed
          /\ stacksPage'.stacks = stacksPage.stacks
          /\ stacksPage'.activeStack = stacksPage.activeStack
          /\ stacksPage'.polled = stacksPage.polled \ c.of
          /\ stacksPage'.pollLinks = LinksOf(stacksPage.pollLinks, c.of, {})
      BY <1>a, <1>27 DEF PollSaysOver, Cleared, StacksHooks
    <3>2. QED
      BY <1>a, <3>1 DEF LinksOf, StacksHooks
  <2>3. QED
    BY <1>b, <2>1, <2>2
<1>28. ASSUME NEW c \in stacksCalls, PollFails(c) PROVE LinkInv'
  <2>1. CallsFollow
    BY <1>28 DEF PollFails, Loads, Returns
  <2>2. PageStays
    <3>1. /\ nav' = nav
          /\ stacksPage'.strayed = stacksPage.strayed
          /\ stacksPage'.stacks = stacksPage.stacks
          /\ stacksPage'.activeStack = stacksPage.activeStack
          /\ stacksPage'.polled = stacksPage.polled \ c.of
          /\ stacksPage'.pollLinks = LinksOf(stacksPage.pollLinks, c.of, {})
      BY <1>a, <1>28 DEF PollFails, Cleared, StacksHooks
    <3>2. QED
      BY <1>a, <3>1 DEF LinksOf, StacksHooks
  <2>3. QED
    BY <1>b, <2>1, <2>2
<1>29. ASSUME NEW c \in stacksCalls, CreateAnswer(c) PROVE LinkInv'
  <2>1. PICK s \in c.of : stacksPage' = Selected(stacksPage, s, stacksCalls \ {c})
    BY <1>29 DEF CreateAnswer
  <2>2. s \in Stacks
    BY <1>a, CallTyped DEF Nullable
  <2>3. /\ nav' = nav /\ c.kind \in Loads
        /\ \A d \in stacksCalls' :
             d \in stacksCalls \/ d.kind = "compose" \/ (d.kind = "list" /\ d.link = c.link)
    BY <1>29 DEF CreateAnswer, Loads
  <2>4. QED
    BY <1>a, <2>1, <2>2, <2>3, LinkSelected
<1>30. ASSUME NEW c \in stacksCalls, CreateFails(c) PROVE LinkInv'
  <2>1. CallsFollow
    BY <1>30 DEF CreateFails, Loads, Returns
  <2>2. PageStays
    BY <1>a, <1>30 DEF CreateFails, StacksHooks
  <2>3. QED
    BY <1>b, <2>1, <2>2
<1>31. ASSUME NEW c \in stacksCalls, DeleteAnswer(c) PROVE LinkInv'
  <2>1. nav' = {}
    BY <1>31 DEF DeleteAnswer
  <2>2. QED
    BY <2>1 DEF LinkInv, ListsFollowLink, LinkKept, LinkOpens
<1>32. ASSUME NEW c \in stacksCalls, DeleteFails(c) PROVE LinkInv'
  <2>1. CallsFollow
    BY <1>32 DEF DeleteFails, Loads, Returns
  <2>2. PageStays
    BY <1>a, <1>32 DEF DeleteFails, StacksHooks
  <2>3. QED
    BY <1>b, <2>1, <2>2
<1>33. QED
  BY <1>1, <1>2, <1>3, <1>4, <1>5, <1>6, <1>7, <1>8, <1>9, <1>10, <1>11, <1>12, <1>13, <1>14,
     <1>15, <1>16, <1>17, <1>18, <1>19, <1>20, <1>21, <1>22, <1>23, <1>24, <1>25, <1>26, <1>27,
     <1>28, <1>29, <1>30, <1>31, <1>32 DEF StacksNext, StacksAnswer

-----------------------------------------------------------------------------
(* The panel *)

PanelInv ==
  /\ currentTab \in TabKey
  /\ IInv /\ LinkInv /\ ContainersInv /\ ResourcesInv /\ HostInv

\* A page that has just been mounted.
LEMMA FreshTyped ==
  /\ FreshStacks \in StacksHooks /\ FreshContainers \in ContainersHooks
  /\ FreshResources \in ResourcesHooks /\ FreshDashboard \in DashboardHooks
  /\ FreshMetrics \in MetricsHooks /\ FreshEvents \in EventsHooks
  /\ FreshAlerts \in AlertsHooks /\ FreshSettings \in SettingsHooks
<1>1. FreshStacks \in StacksHooks
  BY FreshStacksTyped
<1>2. FreshContainers \in ContainersHooks
  BY NoContainer DEF FreshContainers, ContainersHooks, DetailTabs
<1>3. FreshResources \in ResourcesHooks
  BY DEF FreshResources, ResourcesHooks, Kinds, Resources, Nullable
<1>4. FreshDashboard \in DashboardHooks /\ FreshMetrics \in MetricsHooks
  BY DEF FreshDashboard, DashboardHooks, FreshMetrics, MetricsHooks, Ranges, Nullable
<1>5. 0 \in 0..(KeepEvents + 1) /\ 0 \in 0..MaxBackups
  BY HostAssumption
<1>6. FreshEvents \in EventsHooks
  BY <1>5 DEF FreshEvents, EventsHooks
<1>7. FreshAlerts \in AlertsHooks /\ FreshSettings \in SettingsHooks
  BY <1>5 DEF FreshAlerts, AlertsHooks, SubTabs, FreshSettings, SettingsHooks, Paths
<1>8. QED
  BY <1>1, <1>2, <1>3, <1>4, <1>6, <1>7

LEMMA FreshStacksInv ==
  ASSUME nav \in Nullable(Stacks \cup Projects), backend \in Backend, stacksPage = FreshStacks,
         stacksCalls \in SUBSET StacksCall, \A c \in stacksCalls : c.kind \notin Details,
         \A c \in stacksCalls : c.kind \in Loads => c.link = nav
  PROVE  IInv /\ LinkInv
BY FreshTyped
DEF IInv, TypeInv, StacksTypeOK, BannerTrue, BannerShown, Editing, ReportsSettled, LinkInv,
    ListsFollowLink, LinkKept, LinkOpens, Returns, Details, FreshStacks

LEMMA FreshContainersInv ==
  ASSUME containersPage = FreshContainers,
         \A c \in containersCalls : c = RequestOn("list", {})
  PROVE  ContainersInv
<1>1. \A c \in containersCalls : c \in ContainersCall /\ c.kind = "list"
  BY RequestOnTyped, NoContainer DEF RequestOn
<1>2. QED
  BY <1>1, FreshTyped
  DEF ContainersInv, ContainersTypeOK, OpenedIsLive, StreamsBelong, DueBelongs, DetailBelongs,
      DetailShown, FreshContainers

LEMMA FreshResourcesInv ==
  ASSUME resourcesPage = FreshResources, daemon \in Resources,
         \/ resourcesCalls = {} /\ daemon.images = {}
         \/ resourcesCalls = {LoadData("images")}
  PROVE  ResourcesInv
<1> DEFINE load == LoadData("images")
<1>1. load \in ResourcesCall /\ load.kind = "load" /\ load.tab = "images"
      /\ load.items = daemon["images"]
  BY ThereTyped, ResourcesCallTyped DEF LoadData, Kinds
<1> HIDE DEF load
<1>2. CASE resourcesCalls = {} /\ daemon.images = {}
  BY <1>2, FreshTyped DEF ResourcesInv, ResourcesTypeOK, LoadIsCurrent, FreshResources
<1>3. CASE resourcesCalls = {load}
  BY <1>1, <1>3, FreshTyped
  DEF ResourcesInv, ResourcesTypeOK, LoadIsCurrent, Loading, FreshResources
<1>4. QED
  BY <1>2, <1>3 DEF load

LEMMA FreshHostInv ==
  ASSUME dashboardPage = FreshDashboard, metricsPage = FreshMetrics, eventsPage = FreshEvents,
         alertsPage = FreshAlerts, settingsPage = FreshSettings,
         host \in [backups : 0..MaxBackups, paths : Paths],
         hostCalls \in SUBSET HostCall,
         \A c \in hostCalls : c.kind \notin {"backup", "backups", "store"},
         \A c \in hostCalls : c.kind = "history" => c.what = FreshMetrics.range
  PROVE  HostInv
<1>1. HostTypeOK
  BY FreshTyped DEF HostTypeOK
<1>2. HistoryIsCurrent /\ RangeShown
  BY DEF HistoryIsCurrent, RangeShown, ChartShown, FreshMetrics
<1>3. BackupsAreCurrent /\ BackupsUpToDate
  BY DEF BackupsAreCurrent, BackupsUpToDate, BackupsShown, FreshAlerts
<1>4. SaveIsCurrent /\ SettingsKept
  BY DEF SaveIsCurrent, SettingsKept, SavedShown, FreshSettings
<1>5. QED
  BY <1>1, <1>2, <1>3, <1>4 DEF HostInv, HostProperties

\* The invariants of the pages that a step leaves alone.
LEMMA OthersKept ==
  /\ ContainersInv /\ UNCHANGED containersVars => ContainersInv'
  /\ ResourcesInv /\ UNCHANGED resourcesVars => ResourcesInv'
  /\ HostInv /\ UNCHANGED hostVars => HostInv'
<1>1. ContainersInv /\ UNCHANGED containersVars => ContainersInv'
  BY DEF containersVars, ContainersInv, ContainersTypeOK, OpenedIsLive, StreamsBelong, LogShown,
     DueBelongs, DetailBelongs, DetailShown, StatsShown
<1>2. ResourcesInv /\ UNCHANGED resourcesVars => ResourcesInv'
  BY DEF resourcesVars, ResourcesInv, ResourcesTypeOK, LoadIsCurrent, Loading
<1>3. HostInv /\ UNCHANGED hostVars => HostInv'
  BY DEF hostVars, HostInv, HostTypeOK, HistoryIsCurrent, BackupsAreCurrent, SaveIsCurrent,
     HostProperties, RangeShown, ChartShown, BackupsUpToDate,
     BackupsShown, SettingsKept, SavedShown, Due
<1>4. QED
  BY <1>1, <1>2, <1>3

LEMMA StacksKept ==
  IInv /\ LinkInv /\ UNCHANGED <<nav, backend, stacksPage, stacksCalls>> => IInv' /\ LinkInv'
BY DEF IInv, TypeInv, StacksTypeOK, BannerTrue, BannerShown, Editing, ReportsSettled, LinkInv,
   ListsFollowLink, LinkKept, LinkOpens

LEMMA Backing ==
  ASSUME NEW page
  PROVE  /\ \A b \in Backends(page) : b \in Backend
         /\ \A d \in Daemons(page) : d \in Resources
         /\ page # "resources" => \A d \in Daemons(page) : d.images = {}
         /\ \A h \in Hosts(page) : h \in [backups : 0..MaxBackups, paths : Paths]
<1>1. \A b \in Backends(page) : b \in Backend
  BY StacksAssumption DEF Backends, Backend
<1>2. \A d \in Daemons(page) : d \in Resources
  BY DEF Daemons, Resources
<1>3. page # "resources" => \A d \in Daemons(page) : d.images = {}
  BY DEF Daemons
<1>4. \A h \in Hosts(page) : h \in [backups : 0..MaxBackups, paths : Paths]
  BY HostAssumption DEF Hosts, Paths
<1>5. QED
  BY <1>1, <1>2, <1>3, <1>4

\* What the smaller pages ask for first.
LEMMA FirstHostTyped ==
  ASSUME NEW page, backend \in Backend, host \in [backups : 0..MaxBackups, paths : Paths]
  PROVE  /\ FirstHost(page) \in SUBSET HostCall
         /\ \A c \in FirstHost(page) :
              /\ c.kind \notin {"backup", "backups", "store"}
              /\ c.kind = "history" => c.what = FreshMetrics.range
<1>1. HostRequest("dashboard", backend.stacks) \in HostCall
  BY HostRequestTyped DEF Backend
<1>2. HostRequest("history", FreshMetrics.range) \in HostCall
  BY HostRequestTyped, FreshTyped DEF MetricsHooks
<1>3. HostRequest("rules", 0) \in HostCall /\ HostRequest("settings", host.paths) \in HostCall
  BY HostRequestTyped
<1>4. LoadAlerts(FreshAlerts.subTab, host.backups) = HostRequest("rules", 0)
  BY DEF LoadAlerts, FreshAlerts
<1>5. FirstHost(page) \in {{}, {HostRequest("dashboard", backend.stacks)},
                           {HostRequest("history", FreshMetrics.range)},
                           {HostRequest("rules", 0)}, {HostRequest("settings", host.paths)}}
  BY <1>4 DEF FirstHost, LoadDashboard
<1>6. QED
  BY <1>1, <1>2, <1>3, <1>5, HostRequestFields

\* Mounting establishes the invariant of every page.
LEMMA MountStep ==
  ASSUME PanelInv, NEW page, Mount(page), nav' \in Nullable(Stacks \cup Projects),
         currentTab' \in TabKey
  PROVE  PanelInv'
<1>a. stacksCalls \in SUBSET StacksCall
  BY DEF PanelInv, IInv, TypeInv, StacksTypeOK
<1>b. /\ backend' \in Backend /\ daemon' \in Resources
      /\ page # "resources" => daemon'.images = {}
      /\ host' \in [backups : 0..MaxBackups, paths : Paths]
  BY Backing DEF Mount
<1>1. Orphans \in SUBSET StacksCall /\ \A c \in Orphans : c.kind \in {"created", "deleted"}
  <2>1. {} \in Links
    BY DEF Links, Nullable
  <2>2. \A d \in StacksCall :
          /\ [d EXCEPT !.kind = "created", !.link = {}] \in StacksCall
          /\ [d EXCEPT !.kind = "created", !.link = {}].kind = "created"
          /\ [d EXCEPT !.kind = "deleted", !.link = {}] \in StacksCall
          /\ [d EXCEPT !.kind = "deleted", !.link = {}].kind = "deleted"
    BY <2>1 DEF StacksCall, Others
  <2>3. ASSUME NEW c \in Orphans PROVE c \in StacksCall /\ c.kind \in {"created", "deleted"}
    <3>1. PICK d \in stacksCalls :
            c = [d EXCEPT !.kind = IF @ \in {"create", "created"} THEN "created" ELSE "deleted",
                          !.link = {}]
      BY Zenon DEF Orphans
    <3>2. \/ c = [d EXCEPT !.kind = "created", !.link = {}]
          \/ c = [d EXCEPT !.kind = "deleted", !.link = {}]
      BY <3>1
    <3>3. d \in StacksCall
      BY <1>a
    <3>4. QED
      BY Zenon, <2>2, <3>2, <3>3
  <2>4. QED
    BY <2>3
<1>2. (IInv /\ LinkInv)'
  <2> DEFINE list == List(nav', backend'.stacks)
  <2>1. list \in StacksCall /\ list.kind = "list" /\ list.link = nav'
    BY <1>b, ListTyped DEF List, Links, Backend
  <2>2. stacksCalls' \in {Orphans, Orphans \cup {list}}
    BY DEF Mount, FirstStacks, ListStacks
  <2> HIDE DEF list
  <2>3. /\ stacksPage' = FreshStacks /\ stacksCalls' \in SUBSET StacksCall
        /\ \A c \in stacksCalls' : c.kind \notin Details
        /\ \A c \in stacksCalls' : c.kind \in Loads => c.link = nav'
    BY <1>1, <2>1, <2>2 DEF Mount, Details, Loads
  <2>4. QED
    BY <1>b, <2>3, FreshTyped
    DEF IInv, TypeInv, StacksTypeOK, BannerTrue, BannerShown, Editing, ReportsSettled, LinkInv,
        ListsFollowLink, LinkKept, LinkOpens, Returns, Details, FreshStacks
<1>3. ContainersInv'
  <2>1. /\ containersPage' = FreshContainers
        /\ \A c \in containersCalls' : c = RequestOn("list", {})
    BY DEF Mount, FirstContainers
  <2>2. \A c \in containersCalls' : c \in ContainersCall /\ c.kind = "list"
    BY <2>1, RequestOnTyped, NoContainer DEF RequestOn
  <2>3. QED
    BY <2>1, <2>2, FreshTyped
    DEF ContainersInv, ContainersTypeOK, OpenedIsLive, StreamsBelong, DueBelongs, DetailBelongs,
        DetailShown, FreshContainers
<1>4. ResourcesInv'
  <2> DEFINE load == LoadData("images")'
  <2>1. load \in ResourcesCall /\ load.kind = "load" /\ load.tab = "images"
        /\ load.items = daemon'["images"]
    BY <1>b, ThereTyped, ResourcesCallTyped DEF LoadData, Kinds
  <2>2. /\ resourcesPage' = FreshResources
        /\ \/ resourcesCalls' = {} /\ daemon'.images = {}
           \/ resourcesCalls' = {load}
    BY <1>b DEF Mount, FirstResources
  <2> HIDE DEF load
  <2>3. CASE resourcesCalls' = {} /\ daemon'.images = {}
    BY <1>b, <2>2, <2>3, FreshTyped
    DEF ResourcesInv, ResourcesTypeOK, LoadIsCurrent, FreshResources
  <2>4. CASE resourcesCalls' = {load}
    BY <1>b, <2>1, <2>2, <2>4, FreshTyped
    DEF ResourcesInv, ResourcesTypeOK, LoadIsCurrent, Loading, FreshResources
  <2>5. QED
    BY <2>2, <2>3, <2>4
<1>5. HostInv'
  <2>1. /\ dashboardPage' = FreshDashboard /\ metricsPage' = FreshMetrics
        /\ eventsPage' = FreshEvents /\ alertsPage' = FreshAlerts
        /\ settingsPage' = FreshSettings /\ hostCalls' = FirstHost(page)'
    BY DEF Mount
  <2>2. /\ FirstHost(page)' \in SUBSET HostCall
        /\ \A c \in FirstHost(page)' :
             /\ c.kind \notin {"backup", "backups", "store"}
             /\ c.kind = "history" => c.what = FreshMetrics.range
    <3>1. /\ HostRequest("dashboard", backend'.stacks) \in HostCall
          /\ HostRequest("history", FreshMetrics.range) \in HostCall
          /\ HostRequest("rules", 0) \in HostCall
          /\ HostRequest("settings", host'.paths) \in HostCall
      BY <1>b, HostRequestTyped, FreshTyped DEF Backend, MetricsHooks
    <3>2. FirstHost(page)' \in {{}, {HostRequest("dashboard", backend'.stacks)},
                                {HostRequest("history", FreshMetrics.range)},
                                {HostRequest("rules", 0)}, {HostRequest("settings", host'.paths)}}
      BY DEF FirstHost, LoadDashboard, LoadAlerts, FreshAlerts
    <3>3. QED
      BY <3>1, <3>2, HostRequestFields
  <2>3. HostTypeOK'
    BY <1>b, <2>1, <2>2, FreshTyped DEF HostTypeOK
  <2>4. HistoryIsCurrent' /\ RangeShown'
    BY <2>1, <2>2 DEF HistoryIsCurrent, RangeShown, ChartShown, FreshMetrics
  <2>5. BackupsAreCurrent' /\ BackupsUpToDate'
    BY <2>1, <2>2 DEF BackupsAreCurrent, BackupsUpToDate, BackupsShown, FreshAlerts
  <2>6. SaveIsCurrent' /\ SettingsKept'
    BY <2>1, <2>2 DEF SaveIsCurrent, SettingsKept, SavedShown, FreshSettings
  <2>7. QED
    BY <2>3, <2>4, <2>5, <2>6 DEF HostInv, HostProperties
<1>6. QED
  BY <1>2, <1>3, <1>4, <1>5 DEF PanelInv

LEMMA PanelInit == Init => PanelInv
<1> SUFFICES ASSUME Init PROVE PanelInv
  OBVIOUS
<1>a. /\ nav = {} /\ currentTab = "dashboard" /\ FreshPages
      /\ stacksCalls = {} /\ containersCalls = {} /\ resourcesCalls = {}
      /\ backend \in Backend /\ daemon \in Resources /\ daemon.images = {}
      /\ host \in [backups : 0..MaxBackups, paths : Paths]
      /\ hostCalls = FirstHost("dashboard")
  BY Backing DEF Init
<1>1. IInv /\ LinkInv
  BY <1>a, NothingOf, FreshStacksInv DEF FreshPages
<1>2. ContainersInv
  BY <1>a, FreshContainersInv DEF FreshPages
<1>3. ResourcesInv
  BY <1>a, FreshResourcesInv DEF FreshPages
<1>4. HostInv
  BY <1>a, FirstHostTyped, FreshHostInv DEF FreshPages
<1>5. currentTab \in TabKey
  BY <1>a DEF TabKey
<1>6. QED
  BY <1>1, <1>2, <1>3, <1>4, <1>5 DEF PanelInv

\* What a page that was left asked of the server.
LEMMA OrphanStep ==
  ASSUME PanelInv, NEW c \in stacksCalls, OrphanAnswer(c)
  PROVE  PanelInv'
<1>a. /\ c \in StacksCall /\ c.kind \in {"created", "deleted"}
      /\ stacksCalls \in SUBSET StacksCall
  BY DEF OrphanAnswer, CreatedAnswer, DeletedAnswer, PanelInv, IInv, TypeInv, StacksTypeOK
<1>b. c.of \in SUBSET Stacks
  BY <1>a, CallTyped DEF Nullable
<1>1. backend' \in Backend
  BY <1>a, <1>b DEF OrphanAnswer, CreatedAnswer, DeletedAnswer, PanelInv, IInv, TypeInv, Backend
<1>2. nav' \in {nav, {}} /\ stacksPage' = stacksPage
  BY DEF OrphanAnswer, CreatedAnswer, DeletedAnswer
<1> DEFINE list == List({}, backend'.stacks)
<1>3. list \in StacksCall /\ list.kind = "list" /\ list.link = {}
  BY <1>1, ListTyped, NothingOf DEF List, Links, Backend
<1>4. \/ stacksCalls' = stacksCalls \ {c}
      \/ nav' = {} /\ stacksCalls' = (stacksCalls \ {c}) \cup {list}
  <2>1. CASE CreatedAnswer(c)
    BY <2>1 DEF CreatedAnswer, Answer, Answered
  <2>2. CASE DeletedAnswer(c, Open = "stacks")
    BY <2>2 DEF DeletedAnswer, Answer, Answered
  <2>3. QED
    BY <2>1, <2>2 DEF OrphanAnswer
<1> HIDE DEF list
<1>5. TypeInv'
  BY <1>a, <1>1, <1>2, <1>3, <1>4, NothingOf DEF PanelInv, IInv, TypeInv, StacksTypeOK
<1>6. BannerTrue' /\ Editing(stacksPage, stacksCalls)'
  BY <1>a, <1>2, <1>3, <1>4
  DEF PanelInv, IInv, BannerTrue, BannerShown, Editing, ReportsSettled, Details
<1>7. LinkInv'
  BY <1>2, <1>3, <1>4 DEF PanelInv, LinkInv, ListsFollowLink, LinkKept, LinkOpens
<1>8. /\ UNCHANGED <<currentTab, containersVars, resourcesVars, hostVars>>
  BY DEF OrphanAnswer
<1>9. QED
  BY <1>5, <1>6, <1>7, <1>8, OthersKept DEF PanelInv, IInv

LEMMA PanelStep == PanelInv /\ [Next]_vars => PanelInv'
<1> SUFFICES ASSUME PanelInv, [Next]_vars PROVE PanelInv'
  OBVIOUS
<1>1. CASE PageStep
  <2>1. CASE /\ StacksNext
             /\ UNCHANGED <<currentTab, containersVars, resourcesVars, hostVars>>
    BY <2>1, TypeStep, BannerStep, EditingStep, LinkStep, OthersKept DEF PanelInv, IInv
  <2>2. CASE /\ ContainersNext
             /\ UNCHANGED <<currentTab, nav, backend, stacksPage, stacksCalls, resourcesVars,
                            hostVars>>
    BY <2>2, ContainersStep, OthersKept, StacksKept DEF PanelInv
  <2>3. CASE /\ ResourcesNext
             /\ UNCHANGED <<currentTab, nav, backend, stacksPage, stacksCalls, containersVars,
                            hostVars>>
    BY <2>3, ResourcesStep, OthersKept, StacksKept DEF PanelInv
  <2>4. CASE /\ DashboardNext \/ MetricsNext \/ EventsNext \/ AlertsNext \/ SettingsNext
             /\ UNCHANGED <<currentTab, nav, backend, stacksPage, stacksCalls, containersVars,
                            resourcesVars>>
    BY <2>4, DashboardStep, MetricsStep, EventsStep, AlertsStep, SettingsStep, OthersKept,
       StacksKept
    DEF PanelInv, IInv
  <2>5. QED
    BY <1>1, <2>1, <2>2, <2>3, <2>4 DEF PageStep
<1>2. ASSUME NEW tab \in TabKey, SelectTab(tab) PROVE PanelInv'
  <2>1. nav' \in {nav, {}} /\ nav \in Nullable(Stacks \cup Projects) /\ currentTab' \in TabKey
    BY <1>2 DEF SelectTab, PanelInv, IInv, TypeInv
  <2>2. CASE UNCHANGED <<backend, stacksPage, stacksCalls, containersVars, resourcesVars, hostVars>>
    <3>1. IInv' /\ LinkInv'
      BY <2>1, <2>2, NothingOf
      DEF PanelInv, IInv, TypeInv, StacksTypeOK, BannerTrue, BannerShown, Editing,
          ReportsSettled, LinkInv, ListsFollowLink, LinkKept, LinkOpens
    <3>2. QED
      BY <2>1, <2>2, <3>1, OthersKept DEF PanelInv
  <2>3. CASE Mount(PageOf(tab))
    BY <2>1, <2>3, MountStep, NothingOf
  <2>4. QED
    BY <1>2, <2>2, <2>3 DEF SelectTab
<1>3. ASSUME NEW link \in Stacks \cup Projects, HandleNavigateStack(link) PROVE PanelInv'
  BY <1>3, MountStep DEF HandleNavigateStack, Nullable, TabKey
<1>4. ASSUME NEW s \in Stacks, NavigateFromDashboard(s) PROVE PanelInv'
  BY <1>3, <1>4 DEF NavigateFromDashboard
<1>5. ASSUME NEW project \in Projects, NavigateFromGroup(project) \/ NavigateFromModal(project)
      PROVE  PanelInv'
  BY <1>3, <1>5 DEF NavigateFromGroup, NavigateFromModal
<1>6. ASSUME NEW c \in stacksCalls, OrphanAnswer(c) PROVE PanelInv'
  BY <1>6, OrphanStep
<1>7. CASE UNCHANGED vars
  BY <1>7, OthersKept, StacksKept DEF PanelInv, vars
<1>8. QED
  BY <1>1, <1>2, <1>4, <1>5, <1>6, <1>7 DEF Next

-----------------------------------------------------------------------------
(* Theorems *)

\* PanelInv holds in every reachable state.
THEOREM PanelInvariant == Spec => []PanelInv
BY PanelInit, PanelStep, PTL DEF Spec

\* Every page, every open request and what the server has keep their types.
THEOREM PanelTypeCorrect == Spec => []PanelTypeOK
<1>1. PanelInv => PanelTypeOK
  BY DEF PanelInv, IInv, TypeInv, ContainersInv, ResourcesInv, HostInv, PanelTypeOK
<1>2. QED
  BY PanelInvariant, <1>1, PTL

\* For any number of containers, stacks and requests: a link opens its own stack, which stays
\* the active one until the user leaves it or a delete ends the link; and what is shown of one
\* container or of one range is of the chosen one, or of one that was due at the choice.
THEOREM ShownIsChosen == Spec => []ShownBelongs
<1>1. PanelInv => ShownBelongs
  BY DEF PanelInv, LinkInv, ContainersInv, HostInv, HostProperties, ShownBelongs
<1>2. QED
  BY PanelInvariant, <1>1, PTL

\* No stream, socket, line of the log or command of another container is ever taken for the
\* selected one's.  It says nothing of the text of the terminal, in which the output of all the
\* terminals since the page was opened is kept.
THEOREM StreamsAreOfSelected == Spec => []StreamsBelong
<1>1. PanelInv => StreamsBelong
  BY DEF PanelInv, ContainersInv
<1>2. QED
  BY PanelInvariant, <1>1, PTL

\* What the server has acknowledged is shown or is being loaded, unless two loads of it were due
\* at once or an answer was lost, or the form was typed into since, or saved before it was loaded.
THEOREM AcknowledgedIsShown == Spec => []AcksShown
<1>1. PanelInv => AcksShown
  BY DEF PanelInv, ResourcesInv, LoadIsCurrent, ResourcesUpToDate, HostInv, HostProperties,
     AcksShown
<1>2. QED
  BY PanelInvariant, <1>1, PTL

\* The stacks page keeps its promises among the other pages, left and opened again at any
\* time.
THEOREM StacksPageInPanel == Spec => [](EditorBelongs /\ StacksShown /\ BannerTrue)
<1>1. PanelInv => EditorBelongs /\ StacksShown /\ BannerTrue
  BY DEF PanelInv, IInv, Editing, ReportsSettled, EditorBelongs, StacksShown, OverviewShown,
     EditorShown, PlanShown, ReportShown
<1>2. QED
  BY PanelInvariant, <1>1, PTL
=============================================================================
