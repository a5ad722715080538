----------------------------- MODULE StacksPage -----------------------------
(***************************************************************************)
(* The page of the browser that manages stacks: src/web/src/pages/Stacks.  *)
(*                                                                         *)
(* An answer is applied to whatever the page shows by the time it comes.   *)
(* Of a text or a report the model keeps the stack it belongs to.  The     *)
(* .env file and the Dockerfile go with the compose file, the revisions    *)
(* with the security report.  Statistics, storage and wording are left     *)
(* out, and so are the choice of one of the six tabs, which is a click     *)
(* that changes nothing else, and the dialogs that only ask again: their   *)
(* last click is the action.                                               *)
(***************************************************************************)
EXTENDS PanelState

CONSTANTS
  SystemStacks, \* those with is_system, which the server never deletes
  MaxStacksCalls, \* bounds the unanswered requests of the page beside which the user acts
  MaxPolls,     \* bounds the unanswered ticks of the intervals of jobs
  MaxJobs       \* bounds the jobs that are polled at once

ASSUME StacksAssumption == SystemStacks \subseteq Stacks /\ MaxPolls \in Nat

VARIABLES
  stacksPage, \* the hooks of the page
  stacksCalls \* its requests, until they are answered

stacksVars == <<nav, backend, stacksPage, stacksCalls>>

\* Requests whose answers change what is shown of one stack, and others.
Details == {"compose", "reports", "save", "saved", "restore", "restored", "preview",
            "action", "poll", "ended"}
Others == {"create", "delete", "container", "created", "deleted"}

Links == Nullable(Stacks \cup Projects)

\* of    the stack the request is about
\* arg   the rows the server has when a list is asked for; the stack of a poll, if its job
\*       is still running when the poll is sent
\* link  selectedStackId of the render that the handler of the request belongs to, for a
\*       list and where the handler loads one
\* n     the tick of a poll
\* What is created or deleted when the page has been left is "created" or "deleted".
StacksCall ==
  [kind : Details \cup Others \cup {"list"}, of : Nullable(Stacks), arg : SUBSET Stacks,
   link : Links, n : 0..MaxPolls]
Request(kind, of) == [kind |-> kind, of |-> of, arg |-> {}, link |-> {}, n |-> 0]

\* A click: its handler keeps selectedStackId as it was then.
Clicked(kind, of) == [kind |-> kind, of |-> of, arg |-> {}, link |-> nav, n |-> 0]
List(link, rows) == [kind |-> "list", of |-> {}, arg |-> rows, link |-> link, n |-> 0]

StacksHooks ==
  [stacks : SUBSET Stacks, activeStack : Nullable(Stacks),
   composeContent : Nullable(Stacks), saving : BOOLEAN, reports : Nullable(Stacks),
   previewData : Nullable(Stacks), activeJob : Nullable(Stacks), polled : SUBSET Stacks,
   pollLinks : [Stacks -> Links],
   crossed : BOOLEAN, missed : BOOLEAN, overtaken : BOOLEAN, strayed : BOOLEAN]

\* composeContent  the stack the text in the editor is of
\* reports         the one of securityReport and revisions
\* previewData     the one of the plan in the open dialog
\* activeJob       the one of the job that the banner calls running
\* polled          those of the jobs whose interval is set; pollLinks: selectedStackId of the
\*                 click that set it
\* crossed         another stack was selected while an answer about one was due
\* missed          a report that the page asked for did not come
\* overtaken       since the last job was started a poll failed, or one that had been sent
\*                 before its interval was cleared was answered after it
\* strayed         the user has selected or created a stack that is not the one of the link
FreshStacks ==
  [stacks |-> {}, activeStack |-> {}, composeContent |-> {}, saving |-> FALSE,
   reports |-> {}, previewData |-> {}, activeJob |-> {}, polled |-> {},
   pollLinks |-> [s \in Stacks |-> {}],
   crossed |-> FALSE, missed |-> FALSE, overtaken |-> FALSE, strayed |-> FALSE]

StacksTypeOK ==
  /\ stacksPage \in StacksHooks
  /\ stacksCalls \in SUBSET StacksCall

-----------------------------------------------------------------------------
(* Requests *)

\* loadStacks of the effect, which runs again when nav changes, and of the handler of an
\* earlier click, which has the link of its own render.
ListStacks == List(nav, backend.stacks)
LoadStacks(c) == List(c.link, backend.stacks)

\* The user acts, or the interval of the page ticks, while few requests are open.
Ask(requests) == stacksCalls' \in Sent(stacksCalls, requests, MaxStacksCalls)
Answer(c, requests) == stacksCalls' = Answered(stacksCalls, c, requests)
Has(s) == s \subseteq backend.stacks

\* Only the row is selected.
SelectedWithoutText(page, s, due) ==
  [page EXCEPT !.activeStack = {s},
               !.crossed = \/ \E c \in due : c.kind \in Details /\ c.of # {s}
                           \/ ~(page.polled \subseteq {s})
                           \/ ~(page.previewData \subseteq {s}),
               !.strayed = @ \/ nav \notin {{}, {s}}, !.missed = FALSE]

\* selectStack: what comes with the row is shown at once, the reports of the last stack
\* stay until those of the new one come.
Selected(page, s, due) ==
  [page EXCEPT !.activeStack = {s}, !.composeContent = {s},
               !.crossed = \/ \E c \in due : c.kind \in Details /\ c.of # {s}
                           \/ ~(page.polled \subseteq {s})
                           \/ ~(page.previewData \subseteq {s}),
               !.strayed = @ \/ nav \notin {{}, {s}}, !.missed = FALSE]

\* setActiveStack alone: the text in the editor stays.
Shown(page, s) == [page EXCEPT !.activeStack = {s}]

-----------------------------------------------------------------------------
(* What is on the screen *)

\* Nothing beneath the dialog of a plan can be clicked; the other dialogs are opened by a
\* click and end with the one that acts.
StacksUncovered(page) == page.previewData = {}

RowOffered(page, s) == StacksUncovered(page) /\ s \in page.stacks
CreateOffered(page) == StacksUncovered(page)
ActionsOffered(page) == StacksUncovered(page) /\ page.activeStack # {}

\* The tabs: the first one and the title are of the active stack, the editor has the text
\* there is, the report and the revisions are those that came last.
OverviewShown(page) == page.activeStack
EditorShown(page) == page.composeContent
ReportShown(page) == page.reports
RevisionsShown(page) == page.reports

SaveOffered(page) == ActionsOffered(page) /\ ~page.saving

\* Beside each revision, and in the dialog that shows one.
RestoreOffered(page) == ActionsOffered(page) /\ RevisionsShown(page) # {}

PlanShown(page) == page.previewData
BannerShown(page) == page.activeJob # {}

-----------------------------------------------------------------------------
(* The list *)

TickStacks ==
  /\ \A c \in stacksCalls : c.kind # "list"
  /\ Ask({ListStacks})
  /\ UNCHANGED <<nav, stacksPage, backend>>

\* What is active is selected again with every list.
ListAnswerReselects(c) ==
  /\ c.kind = "list"
  /\ \E rows \in {c.arg, backend.stacks} :
       \E s \in stacksPage.activeStack \cap rows :
         /\ stacksPage' = Selected([stacksPage EXCEPT !.stacks = rows], s, stacksCalls \ {c})
         /\ Answer(c, {Request("compose", {s})})
  /\ UNCHANGED <<nav, backend>>

\* The rows are those of some moment since the list was asked for.  A page that was
\* opened by a link selects its stack again with every list.
ListAnswer(c) ==
  /\ c.kind = "list"
  /\ \E rows \in {c.arg, backend.stacks} :
       LET page == [stacksPage EXCEPT !.stacks = rows]
       IN  \/ /\ c.link \cap rows = {}
              /\ stacksPage' = page
              /\ Answer(c, {})
           \/ \E s \in c.link \cap rows :
                /\ stacksPage' = Selected(page, s, stacksCalls \ {c})
                /\ Answer(c, {Request("compose", {s})})
  /\ UNCHANGED <<nav, backend>>

ListFails(c) ==
  /\ c.kind = "list"
  /\ Answer(c, {})
  /\ UNCHANGED <<nav, stacksPage, backend>>

\* The user clicks on a row.
SelectStack(s) ==
  /\ RowOffered(stacksPage, s)
  /\ Ask({Request("compose", {s})})
  /\ stacksPage' = Selected(stacksPage, s, stacksCalls)
  /\ UNCHANGED <<nav, backend>>

\* One try for all three requests.
ComposeAnswerOrNothing(c) ==
  /\ c.kind = "compose"
  /\ \/ /\ Has(c.of)
        /\ stacksPage' = [stacksPage EXCEPT !.composeContent = c.of]
        /\ Answer(c, {Request("reports", c.of)})
     \/ UNCHANGED stacksPage /\ Answer(c, {})
  /\ UNCHANGED <<nav, backend>>

ComposeAnswer(c) ==
  /\ c.kind = "compose"
  /\ \/ Has(c.of) /\ stacksPage' = [stacksPage EXCEPT !.composeContent = c.of]
     \/ UNCHANGED stacksPage
  /\ Answer(c, {Request("reports", c.of)})
  /\ UNCHANGED <<nav, backend>>

ReportsAnswer(c) ==
  /\ c.kind = "reports"
  /\ \/ Has(c.of) /\ stacksPage' = [stacksPage EXCEPT !.reports = c.of]
     \/ stacksPage' = [stacksPage EXCEPT !.missed = TRUE]
  /\ Answer(c, {})
  /\ UNCHANGED <<nav, backend>>

-----------------------------------------------------------------------------
(* The editor *)

HandleSaveCompose ==
  /\ SaveOffered(stacksPage)
  /\ Ask({Clicked("save", stacksPage.activeStack)})
  /\ stacksPage' = [stacksPage EXCEPT !.saving = TRUE]
  /\ UNCHANGED <<nav, backend>>

\* The stack comes back and is shown, whatever was selected meanwhile.
SaveAnswer(c) ==
  /\ c.kind = "save"
  /\ \/ /\ Has(c.of)
        /\ \E s \in c.of : stacksPage' = [Shown(stacksPage, s) EXCEPT !.reports = {s}]
        /\ Answer(c, {LoadStacks(c), Request("saved", c.of)})
     \/ /\ stacksPage' = [stacksPage EXCEPT !.saving = FALSE]
        /\ Answer(c, {})
  /\ UNCHANGED <<nav, backend>>

\* The revisions, asked for by the id of the stack that was active at the click.
SavedRevisionsAnswer(c) ==
  /\ c.kind = "saved"
  /\ \E r \in {stacksPage.reports, c.of} :
       stacksPage' = [stacksPage EXCEPT !.reports = r, !.saving = FALSE]
  /\ Answer(c, {})
  /\ UNCHANGED <<nav, backend>>

HandleRestoreRevision ==
  /\ RestoreOffered(stacksPage)
  /\ Ask({Clicked("restore", stacksPage.activeStack)})
  /\ UNCHANGED <<nav, stacksPage, backend>>

\* The server refuses a revision of another stack, which the list or the dialog may still
\* show.
RestoreAnswer(c) ==
  /\ c.kind = "restore"
  /\ \/ /\ Has(c.of)
        /\ \E s \in c.of :
             stacksPage' = [Shown(stacksPage, s) EXCEPT !.composeContent = {s}]
        /\ Answer(c, {LoadStacks(c), Request("restored", c.of)})
     \/ UNCHANGED stacksPage /\ Answer(c, {})
  /\ UNCHANGED <<nav, backend>>

RestoredSecurityAnswer(c) ==
  /\ c.kind = "restored"
  /\ \/ Has(c.of) /\ stacksPage' = [stacksPage EXCEPT !.reports = c.of]
     \/ UNCHANGED stacksPage
  /\ Answer(c, {})
  /\ UNCHANGED <<nav, backend>>

-----------------------------------------------------------------------------
(* Actions and the job *)

\* Few jobs are polled, and one of a stack at a time: the server refuses a second one while
\* the first runs.  One that is sent after its end and before the poll has seen it is left out.
FewJobs ==
  LET polled == stacksPage.polled
                  \cup UNION {c.of : c \in {d \in stacksCalls : d.kind \in {"action", "poll"}}}
  IN  stacksPage.activeStack \cap polled = {} /\ Cardinality(polled) < MaxJobs

HandleStackAction ==
  /\ ActionsOffered(stacksPage)
  /\ FewJobs
  /\ Ask({Clicked("action", stacksPage.activeStack)})
  /\ UNCHANGED <<nav, stacksPage, backend>>

HandleOpenPreview ==
  /\ ActionsOffered(stacksPage)
  /\ Ask({Request("preview", stacksPage.activeStack)})
  /\ UNCHANGED <<nav, stacksPage, backend>>

\* The plan is shown when it comes, over whatever the page shows.
PreviewAnswer(c) ==
  /\ c.kind = "preview"
  /\ \/ Has(c.of) /\ stacksPage' = [stacksPage EXCEPT !.previewData = c.of]
     \/ UNCHANGED stacksPage
  /\ Answer(c, {})
  /\ UNCHANGED <<nav, backend>>

ClosePreview ==
  /\ PlanShown(stacksPage) # {}
  /\ stacksPage' = [stacksPage EXCEPT !.previewData = {}]
  /\ UNCHANGED <<nav, stacksCalls, backend>>

\* Confirm Deploy brings up the active stack, whose plan this may not be.
ConfirmDeploy ==
  /\ PlanShown(stacksPage) # {}
  /\ stacksPage.activeStack # {}
  /\ FewJobs
  /\ Ask({Clicked("action", stacksPage.activeStack)})
  /\ stacksPage' = [stacksPage EXCEPT !.previewData = {}]
  /\ UNCHANGED <<nav, backend>>

\* The link that the interval of a job has, or {} when it is cleared.
LinksOf(links, of, link) == [s \in Stacks |-> IF s \in of THEN link ELSE links[s]]

ActionAnswer(c) ==
  /\ c.kind = "action"
  /\ Answer(c, {})
  /\ \/ /\ Has(c.of)
        /\ stacksPage' = [stacksPage EXCEPT !.activeJob = c.of, !.polled = @ \cup c.of,
                                            !.pollLinks = LinksOf(@, c.of, c.link),
                                            !.overtaken = FALSE]
        /\ backend' = [backend EXCEPT !.running = @ \cup c.of]
     \/ UNCHANGED <<stacksPage, backend>>
  /\ UNCHANGED nav

JobEnds(s) ==
  /\ s \in backend.running
  /\ backend' = [backend EXCEPT !.running = @ \ {s}]
  /\ UNCHANGED <<nav, stacksPage, stacksCalls>>

\* Ticks do not wait for each other.
TickPoll(s) ==
  /\ s \in stacksPage.polled
  /\ \E n \in 1..MaxPolls :
       /\ \A c \in stacksCalls : c.n # n
       /\ Ask({[kind |-> "poll", of |-> {s}, arg |-> {s} \cap backend.running,
              link |-> stacksPage.pollLinks[s], n |-> n]})
  /\ UNCHANGED <<nav, stacksPage, backend>>

\* The status is the one at some moment since the tick: running, ...
PollSaysRunning(c) ==
  /\ c.kind = "poll"
  /\ c.arg # {}
  /\ stacksPage' = [stacksPage EXCEPT !.activeJob = c.of,
                                      !.overtaken = @ \/ ~(c.of \subseteq stacksPage.polled)]
  /\ Answer(c, {})
  /\ UNCHANGED <<nav, backend>>

\* clearInterval.
Cleared(page, of) ==
  [page EXCEPT !.polled = @ \ of, !.pollLinks = LinksOf(@, of, {})]

\* The interval is cleared before the status is shown.
PollSaysOverUnseen(c) ==
  /\ c.kind = "poll"
  /\ c.of \cap backend.running = {}
  /\ stacksPage' = Cleared(stacksPage, c.of)
  /\ Answer(c, {LoadStacks(c), Request("ended", c.of)})
  /\ UNCHANGED <<nav, backend>>

\* ... or over, and then the stack of the closure, the one that was active when the job
\* was started, is read again, ...
PollSaysOver(c) ==
  /\ c.kind = "poll"
  /\ c.of \cap backend.running = {}
  /\ stacksPage' = [Cleared(stacksPage, c.of) EXCEPT !.activeJob = {}]
  /\ Answer(c, {LoadStacks(c), Request("ended", c.of)})
  /\ UNCHANGED <<nav, backend>>

\* ... or there is no answer, and the page asks no more.
PollFails(c) ==
  /\ c.kind = "poll"
  /\ stacksPage' = [Cleared(stacksPage, c.of) EXCEPT !.overtaken = TRUE]
  /\ backend' = [backend EXCEPT !.running = @ \ c.of]
  /\ Answer(c, {})
  /\ UNCHANGED nav

\* setActiveStack(updated), without its text.
EndedStackAnswer(c) ==
  /\ c.kind = "ended"
  /\ \/ Has(c.of) /\ \E s \in c.of : stacksPage' = Shown(stacksPage, s)
     \/ UNCHANGED stacksPage
  /\ Answer(c, {})
  /\ UNCHANGED <<nav, backend>>

RestartContainer ==
  /\ ActionsOffered(stacksPage)
  /\ Ask({Clicked("container", {})})
  /\ UNCHANGED <<nav, stacksPage, backend>>

ContainerAnswer(c) ==
  /\ c.kind = "container"
  /\ \E after \in {{LoadStacks(c)}, {}} : Answer(c, after)
  /\ UNCHANGED <<nav, stacksPage, backend>>

-----------------------------------------------------------------------------
(* Creating and deleting *)

\* A new stack has a new id.
HandleCreateStack(s) ==
  /\ CreateOffered(stacksPage)
  /\ s \notin backend.stacks \cup stacksPage.stacks
  /\ \A c \in stacksCalls : s \notin c.of \cup c.arg
  /\ Ask({Clicked("create", {s})})
  /\ UNCHANGED <<nav, stacksPage, backend>>

CreateAnswer(c) ==
  /\ c.kind = "create"
  /\ backend' = [backend EXCEPT !.stacks = @ \cup c.of]
  /\ \E s \in c.of : stacksPage' = Selected(stacksPage, s, stacksCalls \ {c})
  /\ Answer(c, {List(c.link, backend'.stacks), Request("compose", c.of)})
  /\ UNCHANGED nav

\* An answer may be lost after the server has done what was asked.
CreateFails(c) ==
  /\ c.kind = "create"
  /\ backend' \in {backend, [backend EXCEPT !.stacks = @ \cup c.of]}
  /\ Answer(c, {})
  /\ UNCHANGED <<nav, stacksPage>>

\* The word to be typed is the name of the stack that is active at the click; the dialog may
\* have been opened over another one, so that this one may be a stack of the system.
HandleDeleteStack ==
  /\ ActionsOffered(stacksPage)
  /\ Ask({Clicked("delete", stacksPage.activeStack)})
  /\ UNCHANGED <<nav, stacksPage, backend>>

\* onClearSelected ends the link that the page was opened by, and the effect runs again if
\* there was one; the list of the handler itself still has the link of the click.
DeleteAnswer(c) ==
  /\ c.kind = "delete"
  /\ Has(c.of)
  /\ c.of \cap SystemStacks = {}
  /\ backend' = [backend EXCEPT !.stacks = @ \ c.of]
  /\ stacksPage' = [stacksPage EXCEPT !.activeStack = {}]
  /\ nav' = {}
  /\ Answer(c, {List(link, backend'.stacks) : link \in {c.link} \cup (IF nav = {} THEN {} ELSE {{}})})

DeleteFails(c) ==
  /\ c.kind = "delete"
  /\ backend' \in {backend, [backend EXCEPT !.stacks = @ \ (c.of \ SystemStacks)]}
  /\ Answer(c, {})
  /\ UNCHANGED <<nav, stacksPage>>

-----------------------------------------------------------------------------
StacksAnswer(c) ==
  \/ ListAnswer(c) \/ ListFails(c)
  \/ ComposeAnswer(c) \/ ReportsAnswer(c)
  \/ SaveAnswer(c) \/ SavedRevisionsAnswer(c)
  \/ RestoreAnswer(c) \/ RestoredSecurityAnswer(c)
  \/ PreviewAnswer(c) \/ ActionAnswer(c) \/ EndedStackAnswer(c) \/ ContainerAnswer(c)
  \/ PollSaysRunning(c) \/ PollSaysOver(c) \/ PollFails(c)
  \/ CreateAnswer(c) \/ CreateFails(c)
  \/ DeleteAnswer(c) \/ DeleteFails(c)

StacksNext ==
  \/ TickStacks
  \/ \E s \in Stacks : SelectStack(s) \/ HandleCreateStack(s) \/ JobEnds(s) \/ TickPoll(s)
  \/ HandleSaveCompose \/ HandleRestoreRevision
  \/ HandleStackAction \/ HandleOpenPreview \/ ClosePreview \/ ConfirmDeploy
  \/ RestartContainer \/ HandleDeleteStack
  \/ \E c \in stacksCalls : StacksAnswer(c)

StacksInit ==
  /\ nav \in Nullable(Stacks)
  /\ backend \in [stacks : {rows \in SUBSET Stacks : SystemStacks \subseteq rows}, running : {{}}]
  /\ stacksPage = FreshStacks
  /\ stacksCalls = {ListStacks}

StacksSpec == StacksInit /\ [][StacksNext]_stacksVars

-----------------------------------------------------------------------------
(* Leaving the page *)

\* The handlers go on, but of what they set only the effects on App remain.
Orphans ==
  {[c EXCEPT !.kind = IF @ \in {"create", "created"} THEN "created" ELSE "deleted", !.link = {}] :
     c \in {d \in stacksCalls : d.kind \in {"create", "created", "delete", "deleted"}}}

CreatedAnswer(c) ==
  /\ c.kind = "created"
  /\ backend' \in {backend, [backend EXCEPT !.stacks = @ \cup c.of]}
  /\ Answer(c, {})
  /\ UNCHANGED <<nav, stacksPage>>

\* onClearSelected is the one of App still: it ends a link that was followed since, and the
\* effect of a page that is open again runs.
DeletedAnswer(c, open) ==
  /\ c.kind = "deleted"
  /\ \/ /\ Has(c.of)
        /\ c.of \cap SystemStacks = {}
        /\ backend' = [backend EXCEPT !.stacks = @ \ c.of]
        /\ nav' = {}
        /\ Answer(c, IF open /\ nav # {} THEN {List({}, backend'.stacks)} ELSE {})
     \/ /\ backend' \in {backend, [backend EXCEPT !.stacks = @ \ (c.of \ SystemStacks)]}
        /\ nav' = nav
        /\ Answer(c, {})
  /\ UNCHANGED stacksPage

-----------------------------------------------------------------------------
(* Correctness *)

\* The text in the editor, which the save button stores in the active stack, is the text of
\* the active stack.  Stacks sets the two in different handlers, each after its await; it is
\* so as long as no other stack is selected while such a handler waits.
EditorBelongs ==
  ~stacksPage.crossed /\ OverviewShown(stacksPage) # {} =>
    EditorShown(stacksPage) = OverviewShown(stacksPage)

\* So are the plan in the dialog, whose button deploys the active stack, and the report and
\* the revisions, unless they are on their way or could not be read.
StacksShown ==
  ~stacksPage.crossed /\ OverviewShown(stacksPage) # {} =>
    /\ PlanShown(stacksPage) \subseteq OverviewShown(stacksPage)
    /\ \/ ReportShown(stacksPage) = OverviewShown(stacksPage)
       \/ stacksPage.missed
       \/ \E c \in stacksCalls : c.kind \in {"compose", "reports"} /\ c.of = stacksPage.activeStack

\* The banner that says that a job runs goes away: its job is being polled, unless a poll
\* failed or was overtaken by a later one.
BannerTrue ==
  BannerShown(stacksPage) =>
    stacksPage.activeJob \subseteq stacksPage.polled \/ stacksPage.overtaken

\* Nothing on the page will load a list for a link: not the effect, and no handler or interval
\* that an earlier click has started.
Unlinked ==
  /\ nav = {}
  /\ \A c \in stacksCalls : c.link = {}
  /\ \A s \in stacksPage.polled : stacksPage.pollLinks[s] = {}

\* A page that no link has led to, or whose link has ended with all that knew it, stays so, and
\* the list that is loaded every four seconds, after each change and at the end of each job
\* leaves the selection, and the text that is being edited, alone.
RefreshKeepsText ==
  [][Unlinked =>
       /\ Unlinked'
       /\ \A c \in stacksCalls \ stacksCalls' :
            c.kind = "list" =>
              /\ stacksPage'.composeContent = stacksPage.composeContent
              /\ stacksPage'.activeStack = stacksPage.activeStack
              /\ \A d \in stacksCalls' \ stacksCalls : d.kind # "compose"]_stacksVars
=============================================================================
