-------------------------- MODULE StacksPageProofs --------------------------
(***************************************************************************)
(* Theorems about StacksPage, for any stacks and any bounds.  Editing is   *)
(* what the properties of the selection need: while no other stack was     *)
(* selected beside an open request, the requests, the polls and the plan   *)
(* are all about the stack whose text is in the editor, also when a delete *)
(* has left no stack active.                                               *)
(***************************************************************************)
EXTENDS StacksPage, TLAPS

TypeInv ==
  /\ nav \in Nullable(Stacks \cup Projects)
  /\ backend \in Backend
  /\ StacksTypeOK

ReportsSettled(page, calls) ==
  \/ page.composeContent = {}
  \/ page.reports = page.composeContent
  \/ page.missed
  \/ \E c \in calls : c.kind \in {"compose", "reports"} /\ c.of = page.composeContent

Editing(page, calls) ==
  ~page.crossed =>
    /\ page.activeStack = {} \/ page.activeStack = page.composeContent
    /\ \A c \in calls : c.kind \in Details => c.of = page.composeContent
    /\ page.polled \subseteq page.composeContent
    /\ page.previewData \subseteq page.composeContent
    /\ ReportsSettled(page, calls)

IInv == TypeInv /\ BannerTrue /\ Editing(stacksPage, stacksCalls)

-----------------------------------------------------------------------------
(* Requests and pages *)

LEMMA RequestTyped ==
  ASSUME NEW kind \in Details \cup Others, NEW of \in Nullable(Stacks)
  PROVE  Request(kind, of) \in StacksCall
BY StacksAssumption DEF Request, StacksCall, Links, Nullable

LEMMA ClickedTyped ==
  ASSUME TypeInv, NEW kind \in Details \cup Others, NEW of \in Nullable(Stacks)
  PROVE  Clicked(kind, of) \in StacksCall
BY StacksAssumption DEF Clicked, StacksCall, Links, TypeInv

LEMMA ListTyped ==
  ASSUME NEW link \in Links, NEW rows \in SUBSET Stacks
  PROVE  List(link, rows) \in StacksCall
BY StacksAssumption DEF List, StacksCall, Nullable

LEMMA PollTyped ==
  ASSUME NEW s \in Stacks, NEW running \in SUBSET Stacks, NEW link \in Links, NEW n \in 1..MaxPolls
  PROVE  [kind |-> "poll", of |-> {s}, arg |-> {s} \cap running, link |-> link, n |-> n]
           \in StacksCall
BY StacksAssumption DEF StacksCall, Details, Nullable

LEMMA CallTyped ==
  ASSUME NEW c \in StacksCall
  PROVE  c.arg \in SUBSET Stacks /\ c.of \in Nullable(Stacks) /\ c.link \in Links
BY DEF StacksCall

LEMMA ListStacksTyped == TypeInv => ListStacks \in StacksCall
BY ListTyped DEF TypeInv, Backend, ListStacks, Links

LEMMA LoadStacksTyped ==
  ASSUME TypeInv, NEW c \in stacksCalls
  PROVE  LoadStacks(c) \in StacksCall
BY ListTyped, CallTyped DEF TypeInv, StacksTypeOK, Backend, LoadStacks

\* The links of the intervals, when one is set or cleared.
LEMMA LinksOfTyped ==
  ASSUME NEW links \in [Stacks -> Links], NEW of, NEW link \in Links
  PROVE  LinksOf(links, of, link) \in [Stacks -> Links]
BY DEF LinksOf

LEMMA ClearedPage ==
  ASSUME NEW page \in StacksHooks, NEW of
  PROVE  /\ Cleared(page, of) \in StacksHooks
         /\ Cleared(page, of).polled = page.polled \ of
         /\ \A field \in {"stacks", "activeStack", "composeContent", "saving", "reports",
                          "previewData", "activeJob", "crossed", "missed", "overtaken", "strayed"} :
              Cleared(page, of)[field] = page[field]
<1>1. {} \in Links
  BY DEF Links, Nullable
<1>2. LinksOf(page.pollLinks, of, {}) \in [Stacks -> Links]
  BY <1>1, LinksOfTyped DEF StacksHooks
<1> DEFINE links == LinksOf(page.pollLinks, of, {})
<1>3. Cleared(page, of) = [page EXCEPT !.polled = page.polled \ of, !.pollLinks = links]
  BY DEF Cleared
<1> HIDE DEF links
<1>4. QED
  BY <1>2, <1>3 DEF links, StacksHooks

\* The page when a job starts.
LEMMA ActionPage ==
  ASSUME TypeInv, NEW c \in stacksCalls, ActionAnswer(c), stacksPage' # stacksPage
  PROVE  /\ stacksPage' \in StacksHooks
         /\ stacksPage'.activeJob = c.of /\ stacksPage'.polled = stacksPage.polled \cup c.of
         /\ stacksPage'.activeStack = stacksPage.activeStack
         /\ stacksPage'.composeContent = stacksPage.composeContent
         /\ stacksPage'.reports = stacksPage.reports
         /\ stacksPage'.previewData = stacksPage.previewData
         /\ stacksPage'.crossed = stacksPage.crossed /\ stacksPage'.missed = stacksPage.missed
         /\ stacksPage'.strayed = stacksPage.strayed /\ stacksPage'.stacks = stacksPage.stacks
         /\ stacksPage'.pollLinks = LinksOf(stacksPage.pollLinks, c.of, c.link)
<1> DEFINE links == LinksOf(stacksPage.pollLinks, c.of, c.link)
           polls == stacksPage.polled \cup c.of
<1>1. c \in StacksCall /\ stacksPage \in StacksHooks
  BY DEF TypeInv, StacksTypeOK
<1>2. c.of \in Nullable(Stacks) /\ c.link \in Links
  BY <1>1, CallTyped
<1>3. links \in [Stacks -> Links]
  BY <1>1, <1>2, LinksOfTyped DEF StacksHooks
<1>4. polls \in SUBSET Stacks
  BY <1>1, <1>2 DEF StacksHooks, Nullable
<1>5. stacksPage' = [stacksPage EXCEPT !.activeJob = c.of, !.polled = polls,
                                       !.pollLinks = links, !.overtaken = FALSE]
  BY DEF ActionAnswer
<1> HIDE DEF links, polls
<1>6. /\ stacksPage' \in StacksHooks
      /\ stacksPage'.activeJob = c.of /\ stacksPage'.polled = polls
      /\ stacksPage'.activeStack = stacksPage.activeStack
      /\ stacksPage'.composeContent = stacksPage.composeContent
      /\ stacksPage'.reports = stacksPage.reports
      /\ stacksPage'.previewData = stacksPage.previewData
      /\ stacksPage'.crossed = stacksPage.crossed /\ stacksPage'.missed = stacksPage.missed
      /\ stacksPage'.strayed = stacksPage.strayed /\ stacksPage'.stacks = stacksPage.stacks
      /\ stacksPage'.pollLinks = links
  BY <1>1, <1>2, <1>3, <1>4, <1>5 DEF StacksHooks
<1>7. QED
  BY <1>6 DEF links, polls

\* Saving and restoring leave the jobs and the link alone.
LEMMA StackComesBack ==
  ASSUME TypeInv, NEW c \in stacksCalls, SaveAnswer(c) \/ RestoreAnswer(c)
  PROVE  /\ stacksPage'.activeJob = stacksPage.activeJob
         /\ stacksPage'.polled = stacksPage.polled
         /\ stacksPage'.pollLinks = stacksPage.pollLinks
         /\ stacksPage'.overtaken = stacksPage.overtaken
         /\ stacksPage'.strayed = stacksPage.strayed
<1> DEFINE Same ==
             /\ stacksPage'.activeJob = stacksPage.activeJob
             /\ stacksPage'.polled = stacksPage.polled
             /\ stacksPage'.pollLinks = stacksPage.pollLinks
             /\ stacksPage'.overtaken = stacksPage.overtaken
             /\ stacksPage'.strayed = stacksPage.strayed
<1>a. stacksPage \in StacksHooks
  BY DEF TypeInv, StacksTypeOK
<1>1. \/ stacksPage' = stacksPage
      \/ stacksPage' = [stacksPage EXCEPT !.saving = FALSE]
      \/ \E s \in c.of : stacksPage' = [Shown(stacksPage, s) EXCEPT !.reports = {s}]
      \/ \E s \in c.of : stacksPage' = [Shown(stacksPage, s) EXCEPT !.composeContent = {s}]
  <2>1. CASE SaveAnswer(c)
    BY Zenon, <2>1 DEF SaveAnswer
  <2>2. CASE RestoreAnswer(c)
    BY Zenon, <2>2 DEF RestoreAnswer
  <2>3. QED
    BY <2>1, <2>2
<1>2. ASSUME stacksPage' = stacksPage PROVE Same
  BY <1>2
<1>3. ASSUME stacksPage' = [stacksPage EXCEPT !.saving = FALSE] PROVE Same
  BY <1>a, <1>3 DEF StacksHooks
<1>4. ASSUME NEW s \in c.of, stacksPage' = [Shown(stacksPage, s) EXCEPT !.reports = {s}]
      PROVE  Same
  BY <1>a, <1>4 DEF StacksHooks, Shown
<1>5. ASSUME NEW s \in c.of, stacksPage' = [Shown(stacksPage, s) EXCEPT !.composeContent = {s}]
      PROVE  Same
  BY <1>a, <1>5 DEF StacksHooks, Shown
<1> HIDE DEF Same
<1>6. Same
  BY Zenon, <1>1, <1>2, <1>3, <1>4, <1>5
<1>7. QED
  BY <1>6 DEF Same

LEMMA NothingOf == {} \in Nullable(Stacks) /\ {} \in Nullable(Stacks \cup Projects)
BY DEF Nullable

LEMMA FreshStacksTyped == FreshStacks \in StacksHooks
<1>1. [s \in Stacks |-> {}] \in [Stacks -> Links]
  BY DEF Links, Nullable
<1>2. QED
  BY <1>1, NothingOf DEF FreshStacks, StacksHooks

LEMMA OneOf == \A s \in Stacks : {s} \in Nullable(Stacks)
BY DEF Nullable

\* A page where a stack has been selected shows that stack.
LEMMA SelectedTyped ==
  ASSUME NEW page \in StacksHooks, NEW s \in Stacks, NEW due
  PROVE  Selected(page, s, due) \in StacksHooks
<1>1. {s} \in Nullable(Stacks)
  BY OneOf
<1> DEFINE crossed == \/ \E c \in due : c.kind \in Details /\ c.of # {s}
                      \/ ~(page.polled \subseteq {s})
                      \/ ~(page.previewData \subseteq {s})
           strayed == page.strayed \/ nav \notin {{}, {s}}
<1>2. crossed \in BOOLEAN /\ strayed \in BOOLEAN
  OBVIOUS
<1>3. Selected(page, s, due) =
        [page EXCEPT !.activeStack = {s}, !.composeContent = {s}, !.crossed = crossed,
                     !.strayed = strayed, !.missed = FALSE]
  BY DEF Selected
<1> HIDE DEF crossed, strayed
<1>4. QED
  BY <1>1, <1>2, <1>3 DEF StacksHooks

LEMMA SelectedEditing ==
  ASSUME NEW page \in StacksHooks, NEW s \in Stacks, NEW due, NEW lists,
         \A c \in lists : c.kind = "list"
  PROVE  Editing(Selected(page, s, due), due \cup lists \cup {Request("compose", {s})})
<1> DEFINE new == Selected(page, s, due)
           calls == due \cup lists \cup {Request("compose", {s})}
<1> SUFFICES ASSUME ~new.crossed PROVE Editing(new, calls)
  BY DEF Editing
<1>1. /\ new.activeStack = {s} /\ new.composeContent = {s}
      /\ new.polled = page.polled /\ new.previewData = page.previewData
      /\ \A c \in due : c.kind \in Details => c.of = {s}
      /\ page.polled \subseteq {s} /\ page.previewData \subseteq {s}
  BY DEF Selected, StacksHooks
<1>2. \A c \in calls : c.kind \in Details => c.of = {s}
  BY <1>1 DEF Request, Details
<1>3. ReportsSettled(new, calls)
  <2>1. /\ Request("compose", {s}).kind = "compose"
        /\ Request("compose", {s}).of = {s}
    BY DEF Request
  <2>2. Request("compose", {s}) \in calls
    OBVIOUS
  <2>3. QED
    BY <1>1, <2>1, <2>2 DEF ReportsSettled
<1>4. QED
  BY <1>1, <1>2, <1>3 DEF Editing

-----------------------------------------------------------------------------
(* Types *)

LEMMA TypeInit == StacksInit => TypeInv
<1> SUFFICES ASSUME StacksInit PROVE TypeInv
  OBVIOUS
<1>1. nav \in Nullable(Stacks \cup Projects) /\ backend \in Backend
  BY DEF StacksInit, Nullable, Backend
<1>2. stacksPage \in StacksHooks
  BY FreshStacksTyped DEF StacksInit
<1>3. stacksCalls \in SUBSET StacksCall
  BY <1>1, ListTyped DEF StacksInit, ListStacks, Backend, Links
<1>4. QED
  BY <1>1, <1>2, <1>3 DEF TypeInv, StacksTypeOK

LEMMA TypeStep == TypeInv /\ [StacksNext]_stacksVars => TypeInv'
<1> SUFFICES ASSUME TypeInv, [StacksNext]_stacksVars PROVE TypeInv'
  OBVIOUS
<1> USE NothingOf DEF TypeInv, StacksTypeOK
<1>1. CASE TickStacks
  BY <1>1, RequestTyped, ListStacksTyped
  DEF TickStacks, Ask, Sent, Details, Others
<1>2. ASSUME NEW s \in Stacks, SelectStack(s) PROVE TypeInv'
  BY <1>2, RequestTyped, OneOf, SelectedTyped
  DEF SelectStack, Ask, Sent, RowOffered, Details, Others
<1>3. ASSUME NEW s \in Stacks, HandleCreateStack(s) PROVE TypeInv'
  BY <1>3, RequestTyped, ClickedTyped, OneOf
  DEF HandleCreateStack, Ask, Sent, Details, Others, StacksHooks
<1>4. ASSUME NEW s \in Stacks, JobEnds(s) PROVE TypeInv'
  BY <1>4, RequestTyped, OneOf
  DEF JobEnds, Details, Others, StacksHooks, Backend
<1>5. ASSUME NEW s \in Stacks, TickPoll(s) PROVE TypeInv'
  BY SMTT(30), <1>5, RequestTyped, OneOf, PollTyped
  DEF TickPoll, Ask, Sent, Details, Others, StacksHooks, Backend
<1>6. CASE HandleSaveCompose
  <2>1. stacksPage.activeStack \in Nullable(Stacks)
    BY DEF StacksHooks
  <2>2. Clicked("save", stacksPage.activeStack) \in StacksCall
    BY <2>1, ClickedTyped DEF Details
  <2>3. stacksPage' \in StacksHooks
    BY <1>6 DEF HandleSaveCompose, StacksHooks
  <2>4. QED
    BY <1>6, <2>2, <2>3 DEF HandleSaveCompose, Ask, Sent
<1>7. CASE HandleRestoreRevision
  BY <1>7, RequestTyped, ClickedTyped
  DEF HandleRestoreRevision, Ask, Sent, RestoreOffered, ActionsOffered, Details,
       Others, StacksHooks
<1>8. CASE HandleStackAction
  BY <1>8, RequestTyped, ClickedTyped
  DEF HandleStackAction, Ask, Sent, ActionsOffered, Details, Others, StacksHooks
<1>9. CASE HandleOpenPreview
  BY <1>9, RequestTyped
  DEF HandleOpenPreview, Ask, Sent, ActionsOffered, Details, Others, StacksHooks
<1>10. CASE ClosePreview
  BY <1>10, RequestTyped
  DEF ClosePreview, Details, Others, StacksHooks
<1>11. CASE ConfirmDeploy
  <2>1. stacksPage.activeStack \in Nullable(Stacks)
    BY DEF StacksHooks
  <2>2. Clicked("action", stacksPage.activeStack) \in StacksCall
    BY <2>1, ClickedTyped DEF Details
  <2>3. stacksPage' \in StacksHooks
    BY <1>11 DEF ConfirmDeploy, StacksHooks
  <2>4. QED
    BY <1>11, <2>2, <2>3 DEF ConfirmDeploy, Ask, Sent
<1>12. CASE RestartContainer
  BY <1>12, RequestTyped, ClickedTyped
  DEF RestartContainer, Ask, Sent, Details, Others, StacksHooks
<1>13. CASE HandleDeleteStack
  BY <1>13, RequestTyped, ClickedTyped
  DEF HandleDeleteStack, Ask, Sent, ActionsOffered, Details, Others, StacksHooks
<1>14. ASSUME NEW c \in stacksCalls, ListAnswer(c) PROVE TypeInv'
  <2> PICK rows \in {c.arg, backend.stacks} :
        LET page == [stacksPage EXCEPT !.stacks = rows]
        IN  \/ stacksPage' = page /\ Answer(c, {})
            \/ \E s \in c.link \cap rows :
                 /\ stacksPage' = Selected(page, s, stacksCalls \ {c})
                 /\ Answer(c, {Request("compose", {s})})
    BY <1>14 DEF ListAnswer
  <2> DEFINE page == [stacksPage EXCEPT !.stacks = rows]
  <2>1. rows \in SUBSET Stacks
    BY CallTyped DEF Backend
  <2>2. page \in StacksHooks
    BY <2>1 DEF StacksHooks
  <2>3. CASE stacksPage' = page /\ Answer(c, {})
    BY <1>14, <2>2, <2>3 DEF ListAnswer, Answer, Answered
  <2>4. ASSUME NEW s \in c.link \cap rows, stacksPage' = Selected(page, s, stacksCalls \ {c}),
               Answer(c, {Request("compose", {s})})
        PROVE  TypeInv'
    <3>1. s \in Stacks
      BY <2>1
    <3>2. stacksPage' \in StacksHooks
      BY <2>2, <2>4, <3>1, SelectedTyped
    <3>3. Request("compose", {s}) \in StacksCall
      BY <3>1, OneOf, RequestTyped DEF Details
    <3>4. QED
      BY <1>14, <2>4, <3>2, <3>3 DEF ListAnswer, Answer, Answered
  <2>5. QED
    BY <2>3, <2>4
<1>15. ASSUME NEW c \in stacksCalls, ListFails(c) PROVE TypeInv'
  BY <1>15, RequestTyped, CallTyped
  DEF ListFails, Answer, Answered, Details, Others, StacksHooks
<1>16. ASSUME NEW c \in stacksCalls, ComposeAnswer(c) PROVE TypeInv'
  <2>1. c.of \in Nullable(Stacks)
    BY CallTyped
  <2>2. Request("reports", c.of) \in StacksCall
    BY <2>1, RequestTyped DEF Details
  <2>3. stacksPage' \in StacksHooks
    BY <1>16, <2>1 DEF ComposeAnswer, StacksHooks
  <2>4. QED
    BY <1>16, <2>2, <2>3 DEF ComposeAnswer, Answer, Answered
<1>17. ASSUME NEW c \in stacksCalls, ReportsAnswer(c) PROVE TypeInv'
  BY <1>17, RequestTyped, CallTyped
  DEF ReportsAnswer, Answer, Answered, Details, Others, StacksHooks
<1>18. ASSUME NEW c \in stacksCalls, SaveAnswer(c) PROVE TypeInv'
  <2>1. c.of \in Nullable(Stacks)
    BY <1>18, CallTyped DEF SaveAnswer
  <2>2. Request("saved", c.of) \in StacksCall /\ LoadStacks(c) \in StacksCall
    BY <2>1, RequestTyped, LoadStacksTyped DEF Details
  <2>3. \A s \in c.of : {s} \in Nullable(Stacks)
    BY <2>1, OneOf DEF Nullable
  <2>4. stacksPage' \in StacksHooks
    BY ZenonT(30), <1>18, <2>3 DEF SaveAnswer, Shown, StacksHooks
  <2>5. QED
    BY <1>18, <2>2, <2>4 DEF SaveAnswer, Answer, Answered
<1>19. ASSUME NEW c \in stacksCalls, SavedRevisionsAnswer(c) PROVE TypeInv'
  BY <1>19, RequestTyped, CallTyped
  DEF SavedRevisionsAnswer, Answer, Answered, Details, Others, StacksHooks
<1>20. ASSUME NEW c \in stacksCalls, RestoreAnswer(c) PROVE TypeInv'
  <2>1. c.of \in Nullable(Stacks)
    BY <1>20, CallTyped DEF RestoreAnswer
  <2>2. Request("restored", c.of) \in StacksCall /\ LoadStacks(c) \in StacksCall
    BY <2>1, RequestTyped, LoadStacksTyped DEF Details
  <2>3. \A s \in c.of : {s} \in Nullable(Stacks)
    BY <2>1, OneOf DEF Nullable
  <2>4. stacksPage' \in StacksHooks
    BY ZenonT(60), <1>20, <2>3 DEF RestoreAnswer, Shown, StacksHooks
  <2>5. QED
    BY <1>20, <2>2, <2>4 DEF RestoreAnswer, Answer, Answered
<1>21. ASSUME NEW c \in stacksCalls, RestoredSecurityAnswer(c) PROVE TypeInv'
  BY <1>21, RequestTyped, CallTyped
  DEF RestoredSecurityAnswer, Answer, Answered, Details, Others, StacksHooks
<1>22. ASSUME NEW c \in stacksCalls, PreviewAnswer(c) PROVE TypeInv'
  BY <1>22, RequestTyped, CallTyped
  DEF PreviewAnswer, Answer, Answered, Details, Others, StacksHooks
<1>23. ASSUME NEW c \in stacksCalls, ActionAnswer(c) PROVE TypeInv'
  <2>1. c.of \in Nullable(Stacks) /\ c.of \in SUBSET Stacks
    BY <1>23, CallTyped DEF ActionAnswer, Nullable
  <2>2. stacksPage' \in StacksHooks
    BY <1>23, ActionPage
  <2>3. backend' \in Backend
    BY <1>23, <2>1 DEF ActionAnswer, Backend
  <2>4. QED
    BY <1>23, <2>2, <2>3 DEF ActionAnswer, Answer, Answered
<1>24. ASSUME NEW c \in stacksCalls, EndedStackAnswer(c) PROVE TypeInv'
  <2>1. c.of \in Nullable(Stacks)
    BY <1>24, CallTyped DEF EndedStackAnswer
  <2>2. \A s \in c.of : {s} \in Nullable(Stacks)
    BY <2>1, OneOf DEF Nullable
  <2>3. stacksPage' \in StacksHooks
    BY <1>24, <2>2 DEF EndedStackAnswer, Shown, StacksHooks
  <2>4. QED
    BY <1>24, <2>3 DEF EndedStackAnswer, Answer, Answered
<1>25. ASSUME NEW c \in stacksCalls, ContainerAnswer(c) PROVE TypeInv'
  <2>1. LoadStacks(c) \in StacksCall
    BY LoadStacksTyped
  <2>2. /\ stacksCalls' \subseteq stacksCalls \cup {LoadStacks(c)}
        /\ stacksPage' = stacksPage /\ nav' = nav /\ backend' = backend
    BY <1>25 DEF ContainerAnswer, Answer, Answered
  <2>3. QED
    BY <2>1, <2>2
<1>26. ASSUME NEW c \in stacksCalls, PollSaysRunning(c) PROVE TypeInv'
  <2> DEFINE overtaken == stacksPage.overtaken \/ ~(c.of \subseteq stacksPage.polled)
  <2>a. c.of \in Nullable(Stacks) /\ overtaken \in BOOLEAN
    BY CallTyped DEF StacksHooks
  <2>b. stacksPage' = [stacksPage EXCEPT !.activeJob = c.of, !.overtaken = overtaken]
    BY <1>26 DEF PollSaysRunning
  <2> HIDE DEF overtaken
  <2>1. stacksPage' \in StacksHooks
    BY <2>a, <2>b DEF StacksHooks
  <2>2. QED
    BY <1>26, <2>1 DEF PollSaysRunning, Answer, Answered
<1>27. ASSUME NEW c \in stacksCalls, PollSaysOver(c) PROVE TypeInv'
  <2>1. c.of \in Nullable(Stacks)
    BY <1>27, CallTyped DEF PollSaysOver
  <2>2. Request("ended", c.of) \in StacksCall /\ LoadStacks(c) \in StacksCall
    BY <2>1, RequestTyped, LoadStacksTyped DEF Details
  <2>3. stacksPage' \in StacksHooks
    <3>1. Cleared(stacksPage, c.of) \in StacksHooks
      BY ClearedPage
    <3>2. QED
      BY <1>27, <3>1, NothingOf DEF PollSaysOver, StacksHooks
  <2>4. QED
    BY <1>27, <2>2, <2>3 DEF PollSaysOver, Answer, Answered
<1>28. ASSUME NEW c \in stacksCalls, PollFails(c) PROVE TypeInv'
  <2>1. Cleared(stacksPage, c.of) \in StacksHooks
    BY ClearedPage
  <2>2. stacksPage' \in StacksHooks
    BY <1>28, <2>1 DEF PollFails, StacksHooks
  <2>3. QED
    BY <1>28, <2>2 DEF PollFails, Answer, Answered, Backend
<1>29. ASSUME NEW c \in stacksCalls, CreateAnswer(c) PROVE TypeInv'
  <2>1. c.of \in Nullable(Stacks) /\ c.of \in SUBSET Stacks
    BY <1>29, CallTyped DEF CreateAnswer, Nullable
  <2>2. backend' \in Backend /\ nav' = nav
    BY <1>29, <2>1 DEF CreateAnswer, Backend
  <2>3. stacksPage' \in StacksHooks
    BY <1>29, <2>1, SelectedTyped DEF CreateAnswer
  <2>4. List(c.link, backend'.stacks) \in StacksCall
    BY <2>2, ListTyped, CallTyped DEF Backend
  <2>5. Request("compose", c.of) \in StacksCall
    BY <2>1, RequestTyped DEF Details
  <2>6. QED
    BY <1>29, <2>2, <2>3, <2>4, <2>5 DEF CreateAnswer, Answer, Answered
<1>30. ASSUME NEW c \in stacksCalls, CreateFails(c) PROVE TypeInv'
  <2>1. c.of \in SUBSET Stacks
    BY <1>30, CallTyped DEF CreateFails, Nullable
  <2>2. backend' \in Backend
    BY <1>30, <2>1 DEF CreateFails, Backend
  <2>3. QED
    BY <1>30, <2>2 DEF CreateFails, Answer, Answered
<1>31. ASSUME NEW c \in stacksCalls, DeleteAnswer(c) PROVE TypeInv'
  <2>1. backend' \in Backend
    BY <1>31 DEF DeleteAnswer, Backend
  <2>2. stacksPage' \in StacksHooks
    BY <1>31 DEF DeleteAnswer, StacksHooks
  <2>3. \A link \in {c.link, {}} : List(link, backend'.stacks) \in StacksCall
    BY <2>1, ListTyped, CallTyped DEF Backend, Links, Nullable
  <2>4. QED
    BY <1>31, <2>1, <2>2, <2>3 DEF DeleteAnswer, Answer, Answered
<1>32. ASSUME NEW c \in stacksCalls, DeleteFails(c) PROVE TypeInv'
  <2>1. backend' \in Backend
    BY <1>32 DEF DeleteFails, Backend
  <2>2. QED
    BY <1>32, <2>1 DEF DeleteFails, Answer, Answered
<1>33. CASE UNCHANGED stacksVars
  BY <1>33 DEF stacksVars, TypeInv, StacksTypeOK
<1>34. QED
  BY <1>1, <1>2, <1>3, <1>4, <1>5, <1>6, <1>7, <1>8, <1>9, <1>10, <1>11, <1>12,
       <1>13, <1>14, <1>15, <1>16, <1>17, <1>18, <1>19, <1>20, <1>21, <1>22, <1>23,
       <1>24, <1>25, <1>26, <1>27, <1>28, <1>29, <1>30, <1>31, <1>32, <1>33
  DEF StacksNext, StacksAnswer

-----------------------------------------------------------------------------
(* The banner *)

LEMMA BannerStep == TypeInv /\ BannerTrue /\ [StacksNext]_stacksVars => BannerTrue'
<1> SUFFICES ASSUME TypeInv, BannerTrue, [StacksNext]_stacksVars PROVE BannerTrue'
  OBVIOUS
<1> USE DEF TypeInv, StacksTypeOK, StacksHooks, BannerTrue, BannerShown
<1>1. CASE TickStacks
  BY <1>1
  DEF TickStacks
<1>2. ASSUME NEW s \in Stacks, SelectStack(s) PROVE BannerTrue'
  BY <1>2
  DEF SelectStack, Selected
<1>3. ASSUME NEW s \in Stacks, HandleCreateStack(s) PROVE BannerTrue'
  BY <1>3
  DEF HandleCreateStack
<1>4. ASSUME NEW s \in Stacks, JobEnds(s) PROVE BannerTrue'
  BY <1>4
  DEF JobEnds
<1>5. ASSUME NEW s \in Stacks, TickPoll(s) PROVE BannerTrue'
  BY <1>5
  DEF TickPoll
<1>6. CASE HandleSaveCompose
  BY <1>6
  DEF HandleSaveCompose
<1>7. CASE HandleRestoreRevision
  BY <1>7
  DEF HandleRestoreRevision
<1>8. CASE HandleStackAction
  BY <1>8
  DEF HandleStackAction
<1>9. CASE HandleOpenPreview
  BY <1>9
  DEF HandleOpenPreview
<1>10. CASE ClosePreview
  BY <1>10
  DEF ClosePreview
<1>11. CASE ConfirmDeploy
  BY <1>11
  DEF ConfirmDeploy
<1>12. CASE RestartContainer
  BY <1>12
  DEF RestartContainer
<1>13. CASE HandleDeleteStack
  BY <1>13
  DEF HandleDeleteStack
<1>14. ASSUME NEW c \in stacksCalls, ListAnswer(c) PROVE BannerTrue'
  BY ZenonT(30), <1>14
  DEF ListAnswer, Selected
<1>15. ASSUME NEW c \in stacksCalls, ListFails(c) PROVE BannerTrue'
  BY <1>15
  DEF ListFails
<1>16. ASSUME NEW c \in stacksCalls, ComposeAnswer(c) PROVE BannerTrue'
  BY <1>16
  DEF ComposeAnswer
<1>17. ASSUME NEW c \in stacksCalls, ReportsAnswer(c) PROVE BannerTrue'
  BY <1>17
  DEF ReportsAnswer
<1>18. ASSUME NEW c \in stacksCalls, SaveAnswer(c) PROVE BannerTrue'
  <2>1. /\ stacksPage'.activeJob = stacksPage.activeJob
        /\ stacksPage'.polled = stacksPage.polled
        /\ stacksPage'.overtaken = stacksPage.overtaken
    BY <1>18, StackComesBack
  <2>2. QED
    BY <2>1
<1>19. ASSUME NEW c \in stacksCalls, SavedRevisionsAnswer(c) PROVE BannerTrue'
  BY <1>19
  DEF SavedRevisionsAnswer
<1>20. ASSUME NEW c \in stacksCalls, RestoreAnswer(c) PROVE BannerTrue'
  <2>1. /\ stacksPage'.activeJob = stacksPage.activeJob
        /\ stacksPage'.polled = stacksPage.polled
        /\ stacksPage'.overtaken = stacksPage.overtaken
    BY <1>20, StackComesBack
  <2>2. QED
    BY <2>1
<1>21. ASSUME NEW c \in stacksCalls, RestoredSecurityAnswer(c) PROVE BannerTrue'
  BY <1>21
  DEF RestoredSecurityAnswer
<1>22. ASSUME NEW c \in stacksCalls, PreviewAnswer(c) PROVE BannerTrue'
  BY <1>22
  DEF PreviewAnswer
<1>23. ASSUME NEW c \in stacksCalls, ActionAnswer(c) PROVE BannerTrue'
  <2>1. CASE UNCHANGED stacksPage
    BY <2>1
  <2>2. ASSUME stacksPage' # stacksPage
        PROVE  stacksPage'.activeJob = c.of /\ stacksPage'.polled = stacksPage.polled \cup c.of
    BY <1>23, <2>2, ActionPage
  <2>3. QED
    BY <2>1, <2>2
<1>24. ASSUME NEW c \in stacksCalls, EndedStackAnswer(c) PROVE BannerTrue'
  BY <1>24
  DEF EndedStackAnswer, Shown
<1>25. ASSUME NEW c \in stacksCalls, ContainerAnswer(c) PROVE BannerTrue'
  BY <1>25
  DEF ContainerAnswer
<1>26. ASSUME NEW c \in stacksCalls, PollSaysRunning(c) PROVE BannerTrue'
  BY <1>26
  DEF PollSaysRunning
<1>27. ASSUME NEW c \in stacksCalls, PollSaysOver(c) PROVE BannerTrue'
  <2>1. Cleared(stacksPage, c.of) \in StacksHooks
    BY ClearedPage
  <2>2. QED
    BY <1>27, <2>1 DEF PollSaysOver
<1>28. ASSUME NEW c \in stacksCalls, PollFails(c) PROVE BannerTrue'
  <2>1. Cleared(stacksPage, c.of) \in StacksHooks
    BY ClearedPage
  <2>2. QED
    BY <1>28, <2>1 DEF PollFails
<1>29. ASSUME NEW c \in stacksCalls, CreateAnswer(c) PROVE BannerTrue'
  BY <1>29
  DEF CreateAnswer, Selected
<1>30. ASSUME NEW c \in stacksCalls, CreateFails(c) PROVE BannerTrue'
  BY <1>30
  DEF CreateFails
<1>31. ASSUME NEW c \in stacksCalls, DeleteAnswer(c) PROVE BannerTrue'
  BY <1>31
  DEF DeleteAnswer
<1>32. ASSUME NEW c \in stacksCalls, DeleteFails(c) PROVE BannerTrue'
  BY <1>32
  DEF DeleteFails
<1>33. CASE UNCHANGED stacksVars
  BY <1>33 DEF stacksVars, BannerTrue
<1>34. QED
  BY <1>1, <1>2, <1>3, <1>4, <1>5, <1>6, <1>7, <1>8, <1>9, <1>10, <1>11, <1>12,
       <1>13, <1>14, <1>15, <1>16, <1>17, <1>18, <1>19, <1>20, <1>21, <1>22, <1>23,
       <1>24, <1>25, <1>26, <1>27, <1>28, <1>29, <1>30, <1>31, <1>32, <1>33
  DEF StacksNext, StacksAnswer

-----------------------------------------------------------------------------
(* The selection *)

LEMMA EditingStep ==
  TypeInv /\ Editing(stacksPage, stacksCalls) /\ [StacksNext]_stacksVars
    => Editing(stacksPage, stacksCalls)'
<1> DEFINE Inv == Editing(stacksPage, stacksCalls)
<1> SUFFICES ASSUME TypeInv, Inv, [StacksNext]_stacksVars PROVE Inv'
  OBVIOUS
<1>a. stacksPage \in StacksHooks /\ stacksCalls \in SUBSET StacksCall
  BY DEF TypeInv, StacksTypeOK
<1>1. CASE TickStacks
  BY <1>1, <1>a
  DEF TickStacks, ListStacks, Ask, Sent, StacksHooks, Editing, ReportsSettled,
       Details, Request, Clicked, List, LoadStacks
<1>2. ASSUME NEW s \in Stacks, SelectStack(s) PROVE Inv'
  <2>1. stacksPage' = Selected(stacksPage, s, stacksCalls)
    BY <1>2 DEF SelectStack
  <2>2. stacksCalls' = stacksCalls \cup {} \cup {Request("compose", {s})}
    BY <1>2 DEF SelectStack, Ask, Sent
  <2>3. QED
    BY <1>a, <2>1, <2>2, SelectedEditing
<1>3. ASSUME NEW s \in Stacks, HandleCreateStack(s) PROVE Inv'
  BY <1>3, <1>a
  DEF HandleCreateStack, Ask, Sent, StacksHooks, Editing, ReportsSettled, Details,
       Request, Clicked, List, LoadStacks
<1>4. ASSUME NEW s \in Stacks, JobEnds(s) PROVE Inv'
  BY <1>4, <1>a
  DEF JobEnds, StacksHooks, Editing, ReportsSettled, Details, Request, Clicked, List, LoadStacks
<1>5. ASSUME NEW s \in Stacks, TickPoll(s) PROVE Inv'
  <2>1. PICK n \in 1..MaxPolls :
          stacksCalls' = stacksCalls \cup
            {[kind |-> "poll", of |-> {s}, arg |-> {s} \cap backend.running,
               link |-> stacksPage.pollLinks[s], n |-> n]}
    BY <1>5 DEF TickPoll, Ask, Sent
  <2>2. stacksPage' = stacksPage /\ s \in stacksPage.polled
    BY <1>5 DEF TickPoll
  <2>3. ASSUME ~stacksPage.crossed PROVE {s} = stacksPage.composeContent
    <3>1. stacksPage.composeContent \in Nullable(Stacks)
      BY <1>a DEF StacksHooks
    <3>2. s \in stacksPage.composeContent
      BY <2>2, <2>3 DEF Editing
    <3>3. QED
      BY <3>1, <3>2 DEF Nullable
  <2>4. \A d \in stacksCalls' : d \in stacksCalls \/ d.of = {s}
    BY <2>1
  <2>5. QED
    BY <2>1, <2>2, <2>3, <2>4 DEF Editing, ReportsSettled
<1>6. CASE HandleSaveCompose
  BY <1>6, <1>a
  DEF HandleSaveCompose, Ask, Sent, SaveOffered, ActionsOffered, StacksHooks,
       Editing, ReportsSettled, Details, Request, Clicked, List, LoadStacks
<1>7. CASE HandleRestoreRevision
  BY <1>7, <1>a
  DEF HandleRestoreRevision, Ask, Sent, RestoreOffered, ActionsOffered, StacksHooks,
       Editing, ReportsSettled, Details, Request, Clicked, List, LoadStacks
<1>8. CASE HandleStackAction
  BY <1>8, <1>a
  DEF HandleStackAction, Ask, Sent, ActionsOffered, StacksHooks, Editing,
       ReportsSettled, Details, Request, Clicked, List, LoadStacks
<1>9. CASE HandleOpenPreview
  BY <1>9, <1>a
  DEF HandleOpenPreview, Ask, Sent, ActionsOffered, StacksHooks, Editing,
       ReportsSettled, Details, Request, Clicked, List, LoadStacks
<1>10. CASE ClosePreview
  BY <1>10, <1>a
  DEF ClosePreview, StacksHooks, Editing, ReportsSettled, Details, Request, Clicked, List,
  LoadStacks
<1>11. CASE ConfirmDeploy
  BY <1>11, <1>a
  DEF ConfirmDeploy, Ask, Sent, StacksHooks, Editing, ReportsSettled, Details, Request, Clicked,
  List, LoadStacks
<1>12. CASE RestartContainer
  BY <1>12, <1>a
  DEF RestartContainer, Ask, Sent, StacksHooks, Editing, ReportsSettled, Details,
       Request, Clicked, List, LoadStacks
<1>13. CASE HandleDeleteStack
  BY <1>13, <1>a
  DEF HandleDeleteStack, Ask, Sent, ActionsOffered, StacksHooks, Editing,
       ReportsSettled, Details, Request, Clicked, List, LoadStacks
<1>14. ASSUME NEW c \in stacksCalls, ListAnswer(c) PROVE Inv'
  <2>1. PICK rows \in {c.arg, backend.stacks} :
        LET page == [stacksPage EXCEPT !.stacks = rows]
        IN  \/ stacksPage' = page /\ Answer(c, {})
            \/ \E s \in c.link \cap rows :
                 /\ stacksPage' = Selected(page, s, stacksCalls \ {c})
                 /\ Answer(c, {Request("compose", {s})})
    BY <1>14 DEF ListAnswer
  <2> DEFINE page == [stacksPage EXCEPT !.stacks = rows]
  <2>2. rows \in SUBSET Stacks /\ page \in StacksHooks
    BY <1>a, CallTyped DEF TypeInv, Backend, StacksHooks
  <2>3. CASE stacksPage' = page /\ Answer(c, {})
    BY <1>14, <1>a, <2>3 DEF ListAnswer, Answer, Answered, Editing, ReportsSettled, StacksHooks
  <2>4. ASSUME NEW s \in c.link \cap rows, stacksPage' = Selected(page, s, stacksCalls \ {c}),
               Answer(c, {Request("compose", {s})})
        PROVE  Inv'
    <3>1. s \in Stacks
      BY <2>2
    <3>2. stacksCalls' = (stacksCalls \ {c}) \cup {} \cup {Request("compose", {s})}
      BY <2>4 DEF Answer, Answered
    <3>3. QED
      BY <2>2, <2>4, <3>1, <3>2, SelectedEditing
  <2>5. QED
    BY <2>1, <2>3, <2>4
<1>15. ASSUME NEW c \in stacksCalls, ListFails(c) PROVE Inv'
  BY <1>15, <1>a
  DEF ListFails, Answer, Answered, StacksHooks, Editing, ReportsSettled, Details,
       Request, Clicked, List, LoadStacks
<1>16. ASSUME NEW c \in stacksCalls, ComposeAnswer(c) PROVE Inv'
  <2> DEFINE next == Request("reports", c.of)
  <2>1. stacksCalls' = (stacksCalls \ {c}) \cup {next}
    BY <1>16 DEF ComposeAnswer, Answer, Answered
  <2>2. next.kind = "reports" /\ next.of = c.of
    BY DEF Request
  <2>3. \/ stacksPage' = stacksPage
        \/ stacksPage' = [stacksPage EXCEPT !.composeContent = c.of]
    BY <1>16 DEF ComposeAnswer
  <2>4. c.kind \in Details
    BY <1>16 DEF ComposeAnswer, Details
  <2>5. ASSUME ~stacksPage.crossed PROVE stacksPage' = stacksPage
    BY <1>a, <2>3, <2>4, <2>5 DEF Editing, StacksHooks
  <2>6. stacksPage'.crossed = stacksPage.crossed
    BY <1>a, <2>3 DEF StacksHooks
  <2>7. ASSUME ~stacksPage.crossed PROVE ReportsSettled(stacksPage, stacksCalls')
    BY <2>1, <2>2, <2>4, <2>7 DEF Editing, ReportsSettled
  <2>8. QED
    BY <2>1, <2>2, <2>4, <2>5, <2>6, <2>7 DEF Editing
<1>17. ASSUME NEW c \in stacksCalls, ReportsAnswer(c) PROVE Inv'
  BY <1>17, <1>a
  DEF ReportsAnswer, Answer, Answered, StacksHooks, Editing, ReportsSettled, Details,
       Request, Clicked, List, LoadStacks
<1>18. ASSUME NEW c \in stacksCalls, SaveAnswer(c) PROVE Inv'
  <2>1. CASE /\ stacksPage' = [stacksPage EXCEPT !.saving = FALSE]
              /\ Answer(c, {})
    BY <1>18, <1>a, <2>1 DEF SaveAnswer, Answer, Answered, StacksHooks, Editing, ReportsSettled
  <2>2. ASSUME NEW s \in c.of,
               stacksPage' = [Shown(stacksPage, s) EXCEPT !.reports = {s}],
               Answer(c, {LoadStacks(c), Request("saved", c.of)})
        PROVE  Inv'
    <3>1. c.of = {s} /\ c.kind \in Details
      BY <1>18, <1>a, CallTyped DEF SaveAnswer, Nullable, Details
    <3>2. /\ stacksPage'.crossed = stacksPage.crossed /\ stacksPage'.activeStack = {s}
          /\ stacksPage'.composeContent = stacksPage.composeContent
          /\ stacksPage'.polled = stacksPage.polled /\ stacksPage'.reports = {s}
          /\ stacksPage'.previewData = stacksPage.previewData
      BY <1>a, <2>2 DEF Shown, StacksHooks
    <3>3. stacksCalls' = (stacksCalls \ {c}) \cup {LoadStacks(c), Request("saved", {s})}
      BY <2>2, <3>1 DEF Answer, Answered
    <3>4. \A d \in stacksCalls' :
            d \in stacksCalls \/ d.kind \notin Details \/ d.of = {s}
      BY <3>3 DEF List, LoadStacks, Request, Details
    <3>5. QED
      BY <3>1, <3>2, <3>4 DEF Editing, ReportsSettled
  <2>3. QED
    BY <1>18, <2>1, <2>2 DEF SaveAnswer
<1>19. ASSUME NEW c \in stacksCalls, SavedRevisionsAnswer(c) PROVE Inv'
  BY <1>19, <1>a
  DEF SavedRevisionsAnswer, Answer, Answered, StacksHooks, Editing, ReportsSettled,
       Details, Request, Clicked, List, LoadStacks
<1>20. ASSUME NEW c \in stacksCalls, RestoreAnswer(c) PROVE Inv'
  <2>1. CASE UNCHANGED stacksPage /\ Answer(c, {})
    BY <1>20, <1>a, <2>1 DEF RestoreAnswer, Answer, Answered, Editing, ReportsSettled
  <2>2. ASSUME NEW s \in c.of,
               stacksPage' = [Shown(stacksPage, s) EXCEPT !.composeContent = {s}],
               Answer(c, {LoadStacks(c), Request("restored", c.of)})
        PROVE  Inv'
    <3>1. c.of = {s} /\ c.kind \in Details /\ c.kind \notin {"compose", "reports"}
      BY <1>20, <1>a, CallTyped DEF RestoreAnswer, Nullable, Details
    <3>2. /\ stacksPage'.crossed = stacksPage.crossed /\ stacksPage'.activeStack = {s}
          /\ stacksPage'.composeContent = {s} /\ stacksPage'.missed = stacksPage.missed
          /\ stacksPage'.polled = stacksPage.polled
          /\ stacksPage'.reports = stacksPage.reports
          /\ stacksPage'.previewData = stacksPage.previewData
      BY <1>a, <2>2 DEF Shown, StacksHooks
    <3>3. stacksCalls' = (stacksCalls \ {c}) \cup {LoadStacks(c), Request("restored", {s})}
      BY <2>2, <3>1 DEF Answer, Answered
    <3>4. \A d \in stacksCalls' :
            d \in stacksCalls \/ d.kind \notin Details \/ d.of = {s}
      BY <3>3 DEF List, LoadStacks, Request, Details
    <3>5. QED
      BY <3>1, <3>2, <3>3, <3>4 DEF Editing, ReportsSettled
  <2>3. QED
    BY <1>20, <2>1, <2>2 DEF RestoreAnswer
<1>21. ASSUME NEW c \in stacksCalls, RestoredSecurityAnswer(c) PROVE Inv'
  BY <1>21, <1>a
  DEF RestoredSecurityAnswer, Answer, Answered, StacksHooks, Editing, ReportsSettled,
       Details, Request, Clicked, List, LoadStacks
<1>22. ASSUME NEW c \in stacksCalls, PreviewAnswer(c) PROVE Inv'
  BY <1>22, <1>a
  DEF PreviewAnswer, Answer, Answered, StacksHooks, Editing, ReportsSettled, Details,
       Request, Clicked, List, LoadStacks
<1>23. ASSUME NEW c \in stacksCalls, ActionAnswer(c) PROVE Inv'
  <2>1. stacksCalls' = stacksCalls \ {c} /\ c.kind \in Details
    BY <1>23 DEF ActionAnswer, Answer, Answered, Details
  <2>2. CASE UNCHANGED stacksPage
    BY <1>23, <2>1, <2>2 DEF ActionAnswer, Editing, ReportsSettled
  <2>3. CASE stacksPage' # stacksPage
    <3>1. /\ stacksPage'.crossed = stacksPage.crossed
          /\ stacksPage'.activeStack = stacksPage.activeStack
          /\ stacksPage'.composeContent = stacksPage.composeContent
          /\ stacksPage'.missed = stacksPage.missed
          /\ stacksPage'.polled = stacksPage.polled \cup c.of
          /\ stacksPage'.reports = stacksPage.reports
          /\ stacksPage'.previewData = stacksPage.previewData
      BY <1>23, <2>3, ActionPage
    <3>2. QED
      BY <1>23, <2>1, <3>1 DEF ActionAnswer, Editing, ReportsSettled
  <2>4. QED
    BY <2>2, <2>3
<1>24. ASSUME NEW c \in stacksCalls, EndedStackAnswer(c) PROVE Inv'
  <2>1. stacksCalls' = stacksCalls \ {c} /\ c.kind \in Details
    BY <1>24 DEF EndedStackAnswer, Answer, Answered, Details
  <2>2. CASE UNCHANGED stacksPage
    BY <1>24, <2>1, <2>2 DEF EndedStackAnswer, Editing, ReportsSettled
  <2>3. ASSUME NEW s \in c.of, stacksPage' = Shown(stacksPage, s)
        PROVE  Inv'
    <3>1. c.of = {s}
      BY <1>24, <1>a, CallTyped DEF EndedStackAnswer, Nullable
    <3>2. /\ stacksPage'.crossed = stacksPage.crossed /\ stacksPage'.activeStack = {s}
          /\ stacksPage'.composeContent = stacksPage.composeContent
          /\ stacksPage'.missed = stacksPage.missed /\ stacksPage'.polled = stacksPage.polled
          /\ stacksPage'.reports = stacksPage.reports
          /\ stacksPage'.previewData = stacksPage.previewData
      BY <1>a, <2>3 DEF Shown, StacksHooks
    <3>3. QED
      BY <1>24, <2>1, <3>1, <3>2 DEF EndedStackAnswer, Editing, ReportsSettled
  <2>4. QED
    BY <1>24, <2>2, <2>3 DEF EndedStackAnswer
<1>25. ASSUME NEW c \in stacksCalls, ContainerAnswer(c) PROVE Inv'
  BY <1>25, <1>a
  DEF ContainerAnswer, Answer, Answered, ListStacks, StacksHooks, Editing,
       ReportsSettled, Details, Request, Clicked, List, LoadStacks
<1>26. ASSUME NEW c \in stacksCalls, PollSaysRunning(c) PROVE Inv'
  BY <1>26, <1>a
  DEF PollSaysRunning, Answer, Answered, StacksHooks, Editing, ReportsSettled,
       Details, Request, Clicked, List, LoadStacks
<1>27. ASSUME NEW c \in stacksCalls, PollSaysOver(c) PROVE Inv'
  <2>1. /\ Cleared(stacksPage, c.of) \in StacksHooks
        /\ Cleared(stacksPage, c.of).polled = stacksPage.polled \ c.of
        /\ \A field \in {"activeStack", "composeContent", "reports", "previewData", "crossed",
                         "missed"} : Cleared(stacksPage, c.of)[field] = stacksPage[field]
    BY <1>a, ClearedPage
  <2>2. /\ stacksPage'.polled = stacksPage.polled \ c.of
        /\ stacksPage'.activeStack = stacksPage.activeStack
        /\ stacksPage'.composeContent = stacksPage.composeContent
        /\ stacksPage'.reports = stacksPage.reports
        /\ stacksPage'.previewData = stacksPage.previewData
        /\ stacksPage'.crossed = stacksPage.crossed
        /\ stacksPage'.missed = stacksPage.missed
    BY <1>27, <2>1 DEF PollSaysOver, StacksHooks
  <2>3. stacksCalls' = (stacksCalls \ {c}) \cup {LoadStacks(c), Request("ended",
  c.of)} /\ c.kind = "poll"
    BY <1>27 DEF PollSaysOver, Answer, Answered
  <2>4. \A d \in stacksCalls' : d \in stacksCalls \/ d.kind \notin Details \/ d.of = c.of
    BY <2>3 DEF Request, List, LoadStacks, Details
  <2>5. QED
    BY <2>2, <2>3, <2>4 DEF Editing, ReportsSettled, Details
<1>28. ASSUME NEW c \in stacksCalls, PollFails(c) PROVE Inv'
  <2>1. /\ Cleared(stacksPage, c.of) \in StacksHooks
        /\ Cleared(stacksPage, c.of).polled = stacksPage.polled \ c.of
        /\ \A field \in {"activeStack", "composeContent", "reports", "previewData", "crossed",
                         "missed"} : Cleared(stacksPage, c.of)[field] = stacksPage[field]
    BY <1>a, ClearedPage
  <2>2. /\ stacksPage'.polled = stacksPage.polled \ c.of
        /\ stacksPage'.activeStack = stacksPage.activeStack
        /\ stacksPage'.composeContent = stacksPage.composeContent
        /\ stacksPage'.reports = stacksPage.reports
        /\ stacksPage'.previewData = stacksPage.previewData
        /\ stacksPage'.crossed = stacksPage.crossed
        /\ stacksPage'.missed = stacksPage.missed
    BY <1>28, <2>1 DEF PollFails, StacksHooks
  <2>3. stacksCalls' = (stacksCalls \ {c}) \cup {} /\ c.kind = "poll"
    BY <1>28 DEF PollFails, Answer, Answered
  <2>4. \A d \in stacksCalls' : d \in stacksCalls \/ d.kind \notin Details \/ d.of = c.of
    BY <2>3 DEF Request, List, LoadStacks, Details
  <2>5. QED
    BY <2>2, <2>3, <2>4 DEF Editing, ReportsSettled, Details
<1>29. ASSUME NEW c \in stacksCalls, CreateAnswer(c) PROVE Inv'
  <2>1. c.of \in SUBSET Stacks
    BY <1>29, <1>a, CallTyped DEF CreateAnswer, Nullable
  <2>2. PICK s \in c.of : stacksPage' = Selected(stacksPage, s, stacksCalls \ {c})
    BY <1>29 DEF CreateAnswer
  <2>3. c.of = {s}
    BY <1>29, <1>a, <2>2, CallTyped DEF CreateAnswer, Nullable
  <2> DEFINE list == List(c.link, backend'.stacks)
  <2>4. stacksCalls' = (stacksCalls \ {c}) \cup {list} \cup {Request("compose", {s})}
    BY <1>29, <2>3 DEF CreateAnswer, Answer, Answered
  <2>5. \A d \in {list} : d.kind = "list"
    BY DEF List
  <2>6. QED
    BY <1>a, <2>1, <2>2, <2>4, <2>5, SelectedEditing
<1>30. ASSUME NEW c \in stacksCalls, CreateFails(c) PROVE Inv'
  BY <1>30, <1>a
  DEF CreateFails, Answer, Answered, StacksHooks, Editing, ReportsSettled, Details,
       Request, Clicked, List, LoadStacks
<1>31. ASSUME NEW c \in stacksCalls, DeleteAnswer(c) PROVE Inv'
  BY <1>31, <1>a
  DEF DeleteAnswer, Answer, Answered, StacksHooks, Editing, ReportsSettled, Details,
       Request, Clicked, List, LoadStacks
<1>32. ASSUME NEW c \in stacksCalls, DeleteFails(c) PROVE Inv'
  BY <1>32, <1>a
  DEF DeleteFails, Answer, Answered, StacksHooks, Editing, ReportsSettled, Details,
       Request, Clicked, List, LoadStacks
<1>33. CASE UNCHANGED stacksVars
  BY <1>33 DEF stacksVars, Editing, ReportsSettled
<1>34. QED
  BY <1>1, <1>2, <1>3, <1>4, <1>5, <1>6, <1>7, <1>8, <1>9, <1>10, <1>11, <1>12,
       <1>13, <1>14, <1>15, <1>16, <1>17, <1>18, <1>19, <1>20, <1>21, <1>22, <1>23,
       <1>24, <1>25, <1>26, <1>27, <1>28, <1>29, <1>30, <1>31, <1>32, <1>33
  DEF StacksNext, StacksAnswer

-----------------------------------------------------------------------------
(* Theorems *)

\* IInv holds in every reachable state.
THEOREM Invariant == StacksSpec => []IInv
<1>1. StacksInit => IInv
  <2> SUFFICES ASSUME StacksInit PROVE IInv
    OBVIOUS
  <2>1. BannerTrue
    BY DEF StacksInit, FreshStacks, BannerTrue, BannerShown
  <2>2. Editing(stacksPage, stacksCalls)
    BY DEF StacksInit, FreshStacks, Editing, ReportsSettled, ListStacks, List, Details
  <2>3. QED
    BY <2>1, <2>2, TypeInit DEF IInv
<1>2. IInv /\ [StacksNext]_stacksVars => IInv'
  BY TypeStep, BannerStep, EditingStep DEF IInv
<1>3. QED
  BY <1>1, <1>2, PTL DEF StacksSpec

\* Every page and every open request has its type.
THEOREM TypeCorrect == StacksSpec => []StacksTypeOK
<1>1. IInv => StacksTypeOK
  BY DEF IInv, TypeInv
<1>2. QED
  BY Invariant, <1>1, PTL

\* For any stacks and any number of open requests, the save button stores the text of the
\* active stack unless another stack was selected while an answer was due.
THEOREM EditorKeepsItsStack == StacksSpec => []EditorBelongs
<1>1. IInv => EditorBelongs
  BY DEF IInv, Editing, EditorBelongs, OverviewShown, EditorShown
<1>2. QED
  BY Invariant, <1>1, PTL

\* The plan, the report and the revisions are of the active stack too, unless another stack was
\* selected while an answer was due: the plan of the first one may then be shown beside the
\* button that deploys the second one.
THEOREM ShownForActive == StacksSpec => []StacksShown
<1>1. IInv => StacksShown
  BY DEF IInv, Editing, ReportsSettled, StacksShown, OverviewShown, PlanShown, ReportShown
<1>2. QED
  BY Invariant, <1>1, PTL

\* The banner goes with the interval that polls its job.
THEOREM BannerGoes == StacksSpec => []BannerTrue
<1>1. IInv => BannerTrue
  BY DEF IInv
<1>2. QED
  BY Invariant, <1>1, PTL

\* Without a link no request of the page has one, and no list selects.
RefreshDone ==
  \A c \in stacksCalls \ stacksCalls' :
    c.kind = "list" =>
      /\ stacksPage'.composeContent = stacksPage.composeContent
      /\ stacksPage'.activeStack = stacksPage.activeStack
      /\ \A d \in stacksCalls' \ stacksCalls : d.kind # "compose"

\* Requests that are not links', and the intervals that stay.
LEMMA StaysUnlinked ==
  ASSUME Unlinked, nav' = {}, \A d \in stacksCalls' : d \in stacksCalls \/ d.link = {},
         \A s \in stacksPage'.polled : stacksPage'.pollLinks[s] = {}
  PROVE  Unlinked'
BY DEF Unlinked

LEMMA RefreshStep ==
  ASSUME TypeInv, StacksNext, Unlinked
  PROVE  Unlinked' /\ RefreshDone
<1> DEFINE Kept == Unlinked' /\ RefreshDone
           Polls == \A s \in stacksPage'.polled : stacksPage'.pollLinks[s] = {}
<1>a. /\ stacksPage \in StacksHooks /\ stacksCalls \in SUBSET StacksCall
      /\ nav = {} /\ \A c \in stacksCalls : c.link = {}
      /\ \A s \in stacksPage.polled : stacksPage.pollLinks[s] = {}
  BY DEF TypeInv, StacksTypeOK, Unlinked
<1> USE DEF Answer, Answered, Ask, Sent, Request, Clicked, List, LoadStacks
<1>1. CASE TickStacks
  <2>1. nav' = {} /\ \A d \in stacksCalls' : d \in stacksCalls \/ d.link = {}
    BY <1>a, <1>1 DEF TickStacks, ListStacks
  <2>2. Polls
    <3>1. /\ stacksPage'.polled = stacksPage.polled
          /\ stacksPage'.pollLinks = stacksPage.pollLinks
      BY <1>a, <1>1 DEF TickStacks, ListStacks, StacksHooks
    <3>2. QED
      BY <1>a, <3>1
  <2>3. RefreshDone
    BY <1>1 DEF TickStacks, RefreshDone
  <2>4. QED
    BY <2>1, <2>2, <2>3, StaysUnlinked
<1>2. ASSUME NEW s \in Stacks, SelectStack(s) PROVE Kept
  <2>1. nav' = {} /\ \A d \in stacksCalls' : d \in stacksCalls \/ d.link = {}
    BY <1>a, <1>2 DEF SelectStack
  <2>2. Polls
    <3>1. /\ stacksPage'.polled = stacksPage.polled
          /\ stacksPage'.pollLinks = stacksPage.pollLinks
      BY <1>a, <1>2 DEF SelectStack, Selected, StacksHooks
    <3>2. QED
      BY <1>a, <3>1
  <2>3. RefreshDone
    BY <1>2 DEF SelectStack, RefreshDone
  <2>4. QED
    BY <2>1, <2>2, <2>3, StaysUnlinked
<1>3. ASSUME NEW s \in Stacks, HandleCreateStack(s) PROVE Kept
  <2>1. nav' = {} /\ \A d \in stacksCalls' : d \in stacksCalls \/ d.link = {}
    BY <1>a, <1>3 DEF HandleCreateStack
  <2>2. Polls
    <3>1. /\ stacksPage'.polled = stacksPage.polled
          /\ stacksPage'.pollLinks = stacksPage.pollLinks
      BY <1>a, <1>3 DEF HandleCreateStack, StacksHooks
    <3>2. QED
      BY <1>a, <3>1
  <2>3. RefreshDone
    BY <1>3 DEF HandleCreateStack, RefreshDone
  <2>4. QED
    BY <2>1, <2>2, <2>3, StaysUnlinked
<1>4. ASSUME NEW s \in Stacks, JobEnds(s) PROVE Kept
  <2>1. nav' = {} /\ \A d \in stacksCalls' : d \in stacksCalls \/ d.link = {}
    BY <1>a, <1>4 DEF JobEnds
  <2>2. Polls
    <3>1. /\ stacksPage'.polled = stacksPage.polled
          /\ stacksPage'.pollLinks = stacksPage.pollLinks
      BY <1>a, <1>4 DEF JobEnds, StacksHooks
    <3>2. QED
      BY <1>a, <3>1
  <2>3. RefreshDone
    BY <1>4 DEF JobEnds, RefreshDone
  <2>4. QED
    BY <2>1, <2>2, <2>3, StaysUnlinked
<1>5. ASSUME NEW s \in Stacks, TickPoll(s) PROVE Kept
  <2>1. nav' = {} /\ \A d \in stacksCalls' : d \in stacksCalls \/ d.link = {}
    BY <1>a, <1>5 DEF TickPoll
  <2>2. Polls
    <3>1. /\ stacksPage'.polled = stacksPage.polled
          /\ stacksPage'.pollLinks = stacksPage.pollLinks
      BY <1>a, <1>5 DEF TickPoll, StacksHooks
    <3>2. QED
      BY <1>a, <3>1
  <2>3. RefreshDone
    BY <1>5 DEF TickPoll, RefreshDone
  <2>4. QED
    BY <2>1, <2>2, <2>3, StaysUnlinked
<1>6. CASE HandleSaveCompose
  <2>1. nav' = {} /\ \A d \in stacksCalls' : d \in stacksCalls \/ d.link = {}
    BY <1>a, <1>6 DEF HandleSaveCompose
  <2>2. Polls
    <3>1. /\ stacksPage'.polled = stacksPage.polled
          /\ stacksPage'.pollLinks = stacksPage.pollLinks
      BY <1>a, <1>6 DEF HandleSaveCompose, StacksHooks
    <3>2. QED
      BY <1>a, <3>1
  <2>3. RefreshDone
    BY <1>6 DEF HandleSaveCompose, RefreshDone
  <2>4. QED
    BY <2>1, <2>2, <2>3, StaysUnlinked
<1>7. CASE HandleRestoreRevision
  <2>1. nav' = {} /\ \A d \in stacksCalls' : d \in stacksCalls \/ d.link = {}
    BY <1>a, <1>7 DEF HandleRestoreRevision
  <2>2. Polls
    <3>1. /\ stacksPage'.polled = stacksPage.polled
          /\ stacksPage'.pollLinks = stacksPage.pollLinks
      BY <1>a, <1>7 DEF HandleRestoreRevision, StacksHooks
    <3>2. QED
      BY <1>a, <3>1
  <2>3. RefreshDone
    BY <1>7 DEF HandleRestoreRevision, RefreshDone
  <2>4. QED
    BY <2>1, <2>2, <2>3, StaysUnlinked
<1>8. CASE HandleStackAction
  <2>1. nav' = {} /\ \A d \in stacksCalls' : d \in stacksCalls \/ d.link = {}
    BY <1>a, <1>8 DEF HandleStackAction
  <2>2. Polls
    <3>1. /\ stacksPage'.polled = stacksPage.polled
          /\ stacksPage'.pollLinks = stacksPage.pollLinks
      BY <1>a, <1>8 DEF HandleStackAction, StacksHooks
    <3>2. QED
      BY <1>a, <3>1
  <2>3. RefreshDone
    BY <1>8 DEF HandleStackAction, RefreshDone
  <2>4. QED
    BY <2>1, <2>2, <2>3, StaysUnlinked
<1>9. CASE HandleOpenPreview
  <2>1. nav' = {} /\ \A d \in stacksCalls' : d \in stacksCalls \/ d.link = {}
    BY <1>a, <1>9 DEF HandleOpenPreview
  <2>2. Polls
    <3>1. /\ stacksPage'.polled = stacksPage.polled
          /\ stacksPage'.pollLinks = stacksPage.pollLinks
      BY <1>a, <1>9 DEF HandleOpenPreview, StacksHooks
    <3>2. QED
      BY <1>a, <3>1
  <2>3. RefreshDone
    BY <1>9 DEF HandleOpenPreview, RefreshDone
  <2>4. QED
    BY <2>1, <2>2, <2>3, StaysUnlinked
<1>10. CASE ClosePreview
  <2>1. nav' = {} /\ \A d \in stacksCalls' : d \in stacksCalls \/ d.link = {}
    BY <1>a, <1>10 DEF ClosePreview
  <2>2. Polls
    <3>1. /\ stacksPage'.polled = stacksPage.polled
          /\ stacksPage'.pollLinks = stacksPage.pollLinks
      BY <1>a, <1>10 DEF ClosePreview, StacksHooks
    <3>2. QED
      BY <1>a, <3>1
  <2>3. RefreshDone
    BY <1>10 DEF ClosePreview, RefreshDone
  <2>4. QED
    BY <2>1, <2>2, <2>3, StaysUnlinked
<1>11. CASE ConfirmDeploy
  <2>1. nav' = {} /\ \A d \in stacksCalls' : d \in stacksCalls \/ d.link = {}
    BY <1>a, <1>11 DEF ConfirmDeploy
  <2>2. Polls
    <3>1. /\ stacksPage'.polled = stacksPage.polled
          /\ stacksPage'.pollLinks = stacksPage.pollLinks
      BY <1>a, <1>11 DEF ConfirmDeploy, StacksHooks
    <3>2. QED
      BY <1>a, <3>1
  <2>3. RefreshDone
    BY <1>11 DEF ConfirmDeploy, RefreshDone
  <2>4. QED
    BY <2>1, <2>2, <2>3, StaysUnlinked
<1>12. CASE RestartContainer
  <2>1. nav' = {} /\ \A d \in stacksCalls' : d \in stacksCalls \/ d.link = {}
    BY <1>a, <1>12 DEF RestartContainer
  <2>2. Polls
    <3>1. /\ stacksPage'.polled = stacksPage.polled
          /\ stacksPage'.pollLinks = stacksPage.pollLinks
      BY <1>a, <1>12 DEF RestartContainer, StacksHooks
    <3>2. QED
      BY <1>a, <3>1
  <2>3. RefreshDone
    BY <1>12 DEF RestartContainer, RefreshDone
  <2>4. QED
    BY <2>1, <2>2, <2>3, StaysUnlinked
<1>13. CASE HandleDeleteStack
  <2>1. nav' = {} /\ \A d \in stacksCalls' : d \in stacksCalls \/ d.link = {}
    BY <1>a, <1>13 DEF HandleDeleteStack
  <2>2. Polls
    <3>1. /\ stacksPage'.polled = stacksPage.polled
          /\ stacksPage'.pollLinks = stacksPage.pollLinks
      BY <1>a, <1>13 DEF HandleDeleteStack, StacksHooks
    <3>2. QED
      BY <1>a, <3>1
  <2>3. RefreshDone
    BY <1>13 DEF HandleDeleteStack, RefreshDone
  <2>4. QED
    BY <2>1, <2>2, <2>3, StaysUnlinked
<1>14. ASSUME NEW c \in stacksCalls, ListAnswer(c) PROVE Kept
  <2>1. nav' = {} /\ \A d \in stacksCalls' : d \in stacksCalls \/ d.link = {}
    BY <1>a, <1>14 DEF ListAnswer
  <2>2. \E rows \in {c.arg, backend.stacks} : stacksPage' = [stacksPage EXCEPT !.stacks = rows]
    BY <1>a, <1>14 DEF ListAnswer
  <2>3. /\ stacksCalls' = stacksCalls \ {c}
        /\ stacksPage'.polled = stacksPage.polled
        /\ stacksPage'.pollLinks = stacksPage.pollLinks
        /\ stacksPage'.composeContent = stacksPage.composeContent
        /\ stacksPage'.activeStack = stacksPage.activeStack
    BY <1>a, <1>14, <2>2 DEF ListAnswer, StacksHooks
  <2>4. QED
    BY <1>a, <2>1, <2>3, StaysUnlinked DEF RefreshDone
<1>15. ASSUME NEW c \in stacksCalls, ListFails(c) PROVE Kept
  <2>1. nav' = {} /\ \A d \in stacksCalls' : d \in stacksCalls \/ d.link = {}
    BY <1>a, <1>15 DEF ListFails
  <2>2. Polls
    <3>1. /\ stacksPage'.polled = stacksPage.polled
          /\ stacksPage'.pollLinks = stacksPage.pollLinks
      BY <1>a, <1>15 DEF ListFails, StacksHooks
    <3>2. QED
      BY <1>a, <3>1
  <2>3. stacksPage' = stacksPage /\ stacksCalls' = stacksCalls \ {c}
    BY <1>15 DEF ListFails
  <2>4. RefreshDone
    BY <2>3 DEF RefreshDone
  <2>5. QED
    BY <2>1, <2>2, <2>4, StaysUnlinked
<1>16. ASSUME NEW c \in stacksCalls, ComposeAnswer(c) PROVE Kept
  <2>1. nav' = {} /\ \A d \in stacksCalls' : d \in stacksCalls \/ d.link = {}
    BY <1>a, <1>16 DEF ComposeAnswer
  <2>2. Polls
    <3>1. /\ stacksPage'.polled = stacksPage.polled
          /\ stacksPage'.pollLinks = stacksPage.pollLinks
      BY <1>a, <1>16 DEF ComposeAnswer, StacksHooks
    <3>2. QED
      BY <1>a, <3>1
  <2>3. RefreshDone
    BY <1>16 DEF ComposeAnswer, RefreshDone
  <2>4. QED
    BY <2>1, <2>2, <2>3, StaysUnlinked
<1>17. ASSUME NEW c \in stacksCalls, ReportsAnswer(c) PROVE Kept
  <2>1. nav' = {} /\ \A d \in stacksCalls' : d \in stacksCalls \/ d.link = {}
    BY <1>a, <1>17 DEF ReportsAnswer
  <2>2. Polls
    <3>1. /\ stacksPage'.polled = stacksPage.polled
          /\ stacksPage'.pollLinks = stacksPage.pollLinks
      BY <1>a, <1>17 DEF ReportsAnswer, StacksHooks
    <3>2. QED
      BY <1>a, <3>1
  <2>3. RefreshDone
    BY <1>17 DEF ReportsAnswer, RefreshDone
  <2>4. QED
    BY <2>1, <2>2, <2>3, StaysUnlinked
<1>18. ASSUME NEW c \in stacksCalls, SaveAnswer(c) PROVE Kept
  <2>1. nav' = {} /\ \A d \in stacksCalls' : d \in stacksCalls \/ d.link = {}
    BY <1>a, <1>18 DEF SaveAnswer
  <2>2. Polls
    <3>1. /\ stacksPage'.polled = stacksPage.polled
          /\ stacksPage'.pollLinks = stacksPage.pollLinks
      BY <1>18, StackComesBack
    <3>2. QED
      BY <1>a, <3>1
  <2>3. RefreshDone
    BY <1>18 DEF SaveAnswer, RefreshDone
  <2>4. QED
    BY <2>1, <2>2, <2>3, StaysUnlinked
<1>19. ASSUME NEW c \in stacksCalls, SavedRevisionsAnswer(c) PROVE Kept
  <2>1. nav' = {} /\ \A d \in stacksCalls' : d \in stacksCalls \/ d.link = {}
    BY <1>a, <1>19 DEF SavedRevisionsAnswer
  <2>2. Polls
    <3>1. /\ stacksPage'.polled = stacksPage.polled
          /\ stacksPage'.pollLinks = stacksPage.pollLinks
      BY <1>a, <1>19 DEF SavedRevisionsAnswer, StacksHooks
    <3>2. QED
      BY <1>a, <3>1
  <2>3. RefreshDone
    BY <1>19 DEF SavedRevisionsAnswer, RefreshDone
  <2>4. QED
    BY <2>1, <2>2, <2>3, StaysUnlinked
<1>20. ASSUME NEW c \in stacksCalls, RestoreAnswer(c) PROVE Kept
  <2>1. nav' = {} /\ \A d \in stacksCalls' : d \in stacksCalls \/ d.link = {}
    BY <1>a, <1>20 DEF RestoreAnswer
  <2>2. Polls
    <3>1. /\ stacksPage'.polled = stacksPage.polled
          /\ stacksPage'.pollLinks = stacksPage.pollLinks
      BY <1>20, StackComesBack
    <3>2. QED
      BY <1>a, <3>1
  <2>3. RefreshDone
    BY <1>20 DEF RestoreAnswer, RefreshDone
  <2>4. QED
    BY <2>1, <2>2, <2>3, StaysUnlinked
<1>21. ASSUME NEW c \in stacksCalls, RestoredSecurityAnswer(c) PROVE Kept
  <2>1. nav' = {} /\ \A d \in stacksCalls' : d \in stacksCalls \/ d.link = {}
    BY <1>a, <1>21 DEF RestoredSecurityAnswer
  <2>2. Polls
    <3>1. /\ stacksPage'.polled = stacksPage.polled
          /\ stacksPage'.pollLinks = stacksPage.pollLinks
      BY <1>a, <1>21 DEF RestoredSecurityAnswer, StacksHooks
    <3>2. QED
      BY <1>a, <3>1
  <2>3. RefreshDone
    BY <1>21 DEF RestoredSecurityAnswer, RefreshDone
  <2>4. QED
    BY <2>1, <2>2, <2>3, StaysUnlinked
<1>22. ASSUME NEW c \in stacksCalls, PreviewAnswer(c) PROVE Kept
  <2>1. nav' = {} /\ \A d \in stacksCalls' : d \in stacksCalls \/ d.link = {}
    BY <1>a, <1>22 DEF PreviewAnswer
  <2>2. Polls
    <3>1. /\ stacksPage'.polled = stacksPage.polled
          /\ stacksPage'.pollLinks = stacksPage.pollLinks
      BY <1>a, <1>22 DEF PreviewAnswer, StacksHooks
    <3>2. QED
      BY <1>a, <3>1
  <2>3. RefreshDone
    BY <1>22 DEF PreviewAnswer, RefreshDone
  <2>4. QED
    BY <2>1, <2>2, <2>3, StaysUnlinked
<1>23. ASSUME NEW c \in stacksCalls, ActionAnswer(c) PROVE Kept
  <2>1. nav' = {} /\ \A d \in stacksCalls' : d \in stacksCalls \/ d.link = {}
    BY <1>a, <1>23 DEF ActionAnswer
  <2>2. Polls
    <3>1. CASE stacksPage' = stacksPage
      BY <1>a, <3>1
    <3>2. CASE stacksPage' # stacksPage
      <4>1. /\ stacksPage'.polled = stacksPage.polled \cup c.of
            /\ stacksPage'.pollLinks = LinksOf(stacksPage.pollLinks, c.of, c.link)
        BY <1>23, <3>2, ActionPage
      <4>2. c.link = {} /\ c.of \subseteq Stacks
        BY <1>a, CallTyped DEF Nullable
      <4>3. QED
        BY <1>a, <4>1, <4>2 DEF LinksOf, StacksHooks
    <3>3. QED
      BY <3>1, <3>2
  <2>3. RefreshDone
    BY <1>23 DEF ActionAnswer, RefreshDone
  <2>4. QED
    BY <2>1, <2>2, <2>3, StaysUnlinked
<1>24. ASSUME NEW c \in stacksCalls, EndedStackAnswer(c) PROVE Kept
  <2>1. nav' = {} /\ \A d \in stacksCalls' : d \in stacksCalls \/ d.link = {}
    BY <1>a, <1>24 DEF EndedStackAnswer
  <2>2. Polls
    <3>1. /\ stacksPage'.polled = stacksPage.polled
          /\ stacksPage'.pollLinks = stacksPage.pollLinks
      BY <1>a, <1>24 DEF EndedStackAnswer, Shown, StacksHooks
    <3>2. QED
      BY <1>a, <3>1
  <2>3. RefreshDone
    BY <1>24 DEF EndedStackAnswer, RefreshDone
  <2>4. QED
    BY <2>1, <2>2, <2>3, StaysUnlinked
<1>25. ASSUME NEW c \in stacksCalls, ContainerAnswer(c) PROVE Kept
  <2>1. nav' = {} /\ \A d \in stacksCalls' : d \in stacksCalls \/ d.link = {}
    BY <1>a, <1>25 DEF ContainerAnswer
  <2>2. Polls
    <3>1. /\ stacksPage'.polled = stacksPage.polled
          /\ stacksPage'.pollLinks = stacksPage.pollLinks
      BY <1>a, <1>25 DEF ContainerAnswer, StacksHooks
    <3>2. QED
      BY <1>a, <3>1
  <2>3. RefreshDone
    BY <1>25 DEF ContainerAnswer, RefreshDone
  <2>4. QED
    BY <2>1, <2>2, <2>3, StaysUnlinked
<1>26. ASSUME NEW c \in stacksCalls, PollSaysRunning(c) PROVE Kept
  <2>1. nav' = {} /\ \A d \in stacksCalls' : d \in stacksCalls \/ d.link = {}
    BY <1>a, <1>26 DEF PollSaysRunning
  <2>2. Polls
    <3>1. /\ stacksPage'.polled = stacksPage.polled
          /\ stacksPage'.pollLinks = stacksPage.pollLinks
      BY <1>a, <1>26 DEF PollSaysRunning, StacksHooks
    <3>2. QED
      BY <1>a, <3>1
  <2>3. RefreshDone
    BY <1>26 DEF PollSaysRunning, RefreshDone
  <2>4. QED
    BY <2>1, <2>2, <2>3, StaysUnlinked
<1>27. ASSUME NEW c \in stacksCalls, PollSaysOver(c) PROVE Kept
  <2>1. nav' = {} /\ \A d \in stacksCalls' : d \in stacksCalls \/ d.link = {}
    BY <1>a, <1>27 DEF PollSaysOver
  <2>2. Polls
    <3>1. /\ stacksPage'.polled = stacksPage.polled \ c.of
          /\ stacksPage'.pollLinks = LinksOf(stacksPage.pollLinks, c.of, {})
      BY <1>a, <1>27 DEF PollSaysOver, Cleared, StacksHooks
    <3>2. QED
      BY <1>a, <3>1 DEF LinksOf, StacksHooks
  <2>3. RefreshDone
    BY <1>27 DEF PollSaysOver, RefreshDone
  <2>4. QED
    BY <2>1, <2>2, <2>3, StaysUnlinked
<1>28. ASSUME NEW c \in stacksCalls, PollFails(c) PROVE Kept
  <2>1. nav' = {} /\ \A d \in stacksCalls' : d \in stacksCalls \/ d.link = {}
    BY <1>a, <1>28 DEF PollFails
  <2>2. Polls
    <3>1. /\ stacksPage'.polled = stacksPage.polled \ c.of
          /\ stacksPage'.pollLinks = LinksOf(stacksPage.pollLinks, c.of, {})
      BY <1>a, <1>28 DEF PollFails, Cleared, StacksHooks
    <3>2. QED
      BY <1>a, <3>1 DEF LinksOf, StacksHooks
  <2>3. RefreshDone
    BY <1>28 DEF PollFails, RefreshDone
  <2>4. QED
    BY <2>1, <2>2, <2>3, StaysUnlinked
<1>29. ASSUME NEW c \in stacksCalls, CreateAnswer(c) PROVE Kept
  <2>1. nav' = {} /\ \A d \in stacksCalls' : d \in stacksCalls \/ d.link = {}
    BY <1>a, <1>29 DEF CreateAnswer
  <2>2. Polls
    <3>1. /\ stacksPage'.polled = stacksPage.polled
          /\ stacksPage'.pollLinks = stacksPage.pollLinks
      BY <1>a, <1>29 DEF CreateAnswer, Selected, StacksHooks
    <3>2. QED
      BY <1>a, <3>1
  <2>3. RefreshDone
    BY <1>29 DEF CreateAnswer, RefreshDone
  <2>4. QED
    BY <2>1, <2>2, <2>3, StaysUnlinked
<1>30. ASSUME NEW c \in stacksCalls, CreateFails(c) PROVE Kept
  <2>1. nav' = {} /\ \A d \in stacksCalls' : d \in stacksCalls \/ d.link = {}
    BY <1>a, <1>30 DEF CreateFails
  <2>2. Polls
    <3>1. /\ stacksPage'.polled = stacksPage.polled
          /\ stacksPage'.pollLinks = stacksPage.pollLinks
      BY <1>a, <1>30 DEF CreateFails, StacksHooks
    <3>2. QED
      BY <1>a, <3>1
  <2>3. RefreshDone
    BY <1>30 DEF CreateFails, RefreshDone
  <2>4. QED
    BY <2>1, <2>2, <2>3, StaysUnlinked
<1>31. ASSUME NEW c \in stacksCalls, DeleteAnswer(c) PROVE Kept
  <2>1. nav' = {} /\ \A d \in stacksCalls' : d \in stacksCalls \/ d.link = {}
    BY <1>a, <1>31 DEF DeleteAnswer
  <2>2. Polls
    <3>1. /\ stacksPage'.polled = stacksPage.polled
          /\ stacksPage'.pollLinks = stacksPage.pollLinks
      BY <1>a, <1>31 DEF DeleteAnswer, StacksHooks
    <3>2. QED
      BY <1>a, <3>1
  <2>3. RefreshDone
    BY <1>31 DEF DeleteAnswer, RefreshDone
  <2>4. QED
    BY <2>1, <2>2, <2>3, StaysUnlinked
<1>32. ASSUME NEW c \in stacksCalls, DeleteFails(c) PROVE Kept
  <2>1. nav' = {} /\ \A d \in stacksCalls' : d \in stacksCalls \/ d.link = {}
    BY <1>a, <1>32 DEF DeleteFails
  <2>2. Polls
    <3>1. /\ stacksPage'.polled = stacksPage.polled
          /\ stacksPage'.pollLinks = stacksPage.pollLinks
      BY <1>a, <1>32 DEF DeleteFails, StacksHooks
    <3>2. QED
      BY <1>a, <3>1
  <2>3. RefreshDone
    BY <1>32 DEF DeleteFails, RefreshDone
  <2>4. QED
    BY <2>1, <2>2, <2>3, StaysUnlinked
<1>33. QED
  BY <1>1, <1>2, <1>3, <1>4, <1>5, <1>6, <1>7, <1>8, <1>9, <1>10, <1>11, <1>12, <1>13, <1>14,
     <1>15, <1>16, <1>17, <1>18, <1>19, <1>20, <1>21, <1>22, <1>23, <1>24, <1>25, <1>26, <1>27,
     <1>28, <1>29, <1>30, <1>31, <1>32 DEF StacksNext, StacksAnswer

\* For any stacks and requests, on a page that no link led to, or whose link has ended with
\* every handler and interval that knew it, reading the list again never takes the user's
\* text away, and the page stays without a link until one is followed.
THEOREM TextIsKept == StacksSpec => RefreshKeepsText
<1>1. TypeInv /\ [StacksNext]_stacksVars => [Unlinked => Unlinked' /\ RefreshDone]_stacksVars
  BY RefreshStep
<1>2. IInv => TypeInv
  BY DEF IInv
<1>3. [Unlinked => Unlinked' /\ RefreshDone]_stacksVars =>
        [Unlinked =>
           /\ Unlinked'
           /\ \A c \in stacksCalls \ stacksCalls' :
                c.kind = "list" =>
                  /\ stacksPage'.composeContent = stacksPage.composeContent
                  /\ stacksPage'.activeStack = stacksPage.activeStack
                  /\ \A d \in stacksCalls' \ stacksCalls : d.kind # "compose"]_stacksVars
  BY DEF RefreshDone
<1>4. QED
  BY Invariant, <1>1, <1>2, <1>3, PTL DEF StacksSpec, RefreshKeepsText
=============================================================================
