--------------------------- MODULE ResourcesPage ---------------------------
(***************************************************************************)
(* The page of the browser for images, volumes and networks:               *)
(* src/web/src/pages/Resources, with the dialog of components/Modal that   *)
(* wants a word typed before something cannot be undone.                   *)
(*                                                                         *)
(* The page has no timer.  It loads the list of its tab when the tab is    *)
(* chosen and after every change that was acknowledged.                    *)
(***************************************************************************)
EXTENDS PanelState

CONSTANTS
  Images, Volumes, Networks,
  BuiltinNetworks, \* bridge, host and none, which have no delete button
  MaxResourcesCalls \* bounds the unanswered requests of the page beside which the user acts

VARIABLES
  resourcesPage,  \* the hooks of the page
  resourcesCalls, \* its requests, until they are answered
  daemon          \* the images, volumes and networks there are

resourcesVars == <<resourcesPage, resourcesCalls, daemon>>

Kinds == {"images", "volumes", "networks"}
All == [images |-> Images, volumes |-> Volumes, networks |-> Networks]
Resources == [images : SUBSET Images, volumes : SUBSET Volumes, networks : SUBSET Networks]

\* tab    the tab whose list is loaded, or that was shown when a change was asked for
\* items  what there is when a list is asked for, or what is to be pulled or removed
ResourcesCall ==
  {c \in [kind : {"load", "pull", "delete", "prune"}, tab : Kinds,
          items : SUBSET (Images \cup Volumes \cup Networks)] :
     c.items \subseteq All[c.tab] /\ (c.kind = "pull" => c.tab = "images")}
LoadData(tab) == [kind |-> "load", tab |-> tab, items |-> daemon[tab]]

\* shown     images, volumes and networks
\* typed     the word is in the dialog of Prune
\* doubtful  two loads of one tab were due at once, or an answer was lost
ResourcesHooks ==
  [tab : Kinds, shown : Resources, pulling : BOOLEAN, pullModalOpen : BOOLEAN,
   volumeToDelete : Nullable(Volumes), isPruneVolumesOpen : BOOLEAN,
   typed : BOOLEAN, doubtful : BOOLEAN]

FreshResources ==
  [tab |-> "images", shown |-> [images |-> {}, volumes |-> {}, networks |-> {}],
   pulling |-> FALSE, pullModalOpen |-> FALSE, volumeToDelete |-> {},
   isPruneVolumesOpen |-> FALSE, typed |-> FALSE,
   doubtful |-> FALSE]

ResourcesTypeOK ==
  /\ resourcesPage \in ResourcesHooks
  /\ resourcesCalls \in SUBSET ResourcesCall
  /\ daemon \in Resources

AskResources(requests) == resourcesCalls' \in Sent(resourcesCalls, requests, MaxResourcesCalls)

\* Another load of the tab: the answers of two may come in either order.
Loading(tab, calls) == \E c \in calls : c.kind = "load" /\ c.tab = tab

-----------------------------------------------------------------------------
(* What is on the screen *)

ResourcesUncovered(page) ==
  ~page.pullModalOpen /\ page.volumeToDelete = {} /\ ~page.isPruneVolumesOpen

PullOffered(page) == page.pullModalOpen /\ ~page.pulling
ImagesOffered(page) ==
  IF page.tab = "images" /\ ResourcesUncovered(page) THEN page.shown.images ELSE {}
VolumesOffered(page) ==
  IF page.tab = "volumes" /\ ResourcesUncovered(page) THEN page.shown.volumes ELSE {}
NetworksOffered(page) ==
  IF page.tab = "networks" /\ ResourcesUncovered(page)
  THEN page.shown.networks \ BuiltinNetworks ELSE {}

-----------------------------------------------------------------------------
(* Loading *)

SelectResourcesTab(tab) ==
  /\ ResourcesUncovered(resourcesPage)
  /\ tab # resourcesPage.tab
  /\ AskResources({LoadData(tab)})
  /\ resourcesPage' = [resourcesPage EXCEPT !.tab = tab,
                         !.doubtful = Loading(tab, resourcesCalls)]
  /\ UNCHANGED daemon

LoadAnswer(c) ==
  /\ c.kind = "load"
  /\ \/ \E items \in {c.items, daemon[c.tab]} :
          resourcesPage' = [resourcesPage EXCEPT !.shown[c.tab] = items]
     \/ resourcesPage' = [resourcesPage EXCEPT !.doubtful = TRUE]
  /\ resourcesCalls' = Answered(resourcesCalls, c, {})
  /\ UNCHANGED daemon

-----------------------------------------------------------------------------
(* Changes *)

\* Nothing is loaded.
AcknowledgeSilently(c, page, items) ==
  /\ daemon' = [daemon EXCEPT ![c.tab] = items]
  /\ resourcesPage' = page
  /\ resourcesCalls' = Answered(resourcesCalls, c, {})

\* A change of some kind is done and its handler, which knows the tab of its render, loads
\* the list of that tab.
Acknowledge(c, page, items) ==
  /\ daemon' = [daemon EXCEPT ![c.tab] = items]
  /\ resourcesPage' = [page EXCEPT
       !.doubtful = @ \/ Loading(c.tab, resourcesCalls)]
  /\ resourcesCalls' = Answered(resourcesCalls, c,
                         {[kind |-> "load", tab |-> c.tab, items |-> items]})

\* The change may have been made all the same; nothing is loaded.
Lose(c, page, items) ==
  /\ daemon' \in {daemon, [daemon EXCEPT ![c.tab] = items]}
  /\ resourcesPage' = [page EXCEPT !.doubtful = TRUE]
  /\ resourcesCalls' = Answered(resourcesCalls, c, {})

OpenPull ==
  /\ resourcesPage.tab = "images"
  /\ ResourcesUncovered(resourcesPage)
  /\ resourcesPage' = [resourcesPage EXCEPT !.pullModalOpen = TRUE]
  /\ UNCHANGED <<resourcesCalls, daemon>>

ClosePull ==
  /\ resourcesPage.pullModalOpen
  /\ resourcesPage' = [resourcesPage EXCEPT !.pullModalOpen = FALSE]
  /\ UNCHANGED <<resourcesCalls, daemon>>

\* The dialog may be closed while the image is being pulled; the button waits.
HandlePullImage(image) ==
  /\ PullOffered(resourcesPage)
  /\ AskResources({[kind |-> "pull", tab |-> "images", items |-> {image}]})
  /\ resourcesPage' = [resourcesPage EXCEPT !.pulling = TRUE]
  /\ UNCHANGED daemon

PullAnswer(c) ==
  /\ c.kind = "pull"
  /\ LET items == daemon.images \cup c.items
     IN  \/ Acknowledge(c, [resourcesPage EXCEPT !.pullModalOpen = FALSE, !.pulling = FALSE], items)
         \/ Lose(c, [resourcesPage EXCEPT !.pulling = FALSE], items)

\* A question of the browser comes first.
HandleDeleteImage(image) ==
  /\ image \in ImagesOffered(resourcesPage)
  /\ AskResources({[kind |-> "delete", tab |-> "images", items |-> {image}]})
  /\ UNCHANGED <<resourcesPage, daemon>>

HandlePruneImages(unused) ==
  /\ resourcesPage.tab = "images"
  /\ ResourcesUncovered(resourcesPage)
  /\ AskResources({[kind |-> "prune", tab |-> "images", items |-> unused]})
  /\ UNCHANGED <<resourcesPage, daemon>>

HandleDeleteNetwork(network) ==
  /\ network \in NetworksOffered(resourcesPage)
  /\ AskResources({[kind |-> "delete", tab |-> "networks", items |-> {network}]})
  /\ UNCHANGED <<resourcesPage, daemon>>

OpenDeleteVolume(volume) ==
  /\ volume \in VolumesOffered(resourcesPage)
  /\ resourcesPage' = [resourcesPage EXCEPT !.volumeToDelete = {volume}]
  /\ UNCHANGED <<resourcesCalls, daemon>>

\* The dialog goes with the hook, and what was typed with the dialog.
CloseDeleteVolume ==
  /\ resourcesPage.volumeToDelete # {}
  /\ resourcesPage' = [resourcesPage EXCEPT !.volumeToDelete = {}]
  /\ UNCHANGED <<resourcesCalls, daemon>>

\* The name is typed and confirmed, which closes the dialog.
HandleDeleteVolume ==
  /\ resourcesPage.volumeToDelete # {}
  /\ AskResources({[kind |-> "delete", tab |-> "volumes", items |-> resourcesPage.volumeToDelete]})
  /\ resourcesPage' = [resourcesPage EXCEPT !.volumeToDelete = {}]
  /\ UNCHANGED daemon

OpenPrune ==
  /\ resourcesPage.tab = "volumes"
  /\ ResourcesUncovered(resourcesPage)
  /\ resourcesPage' = [resourcesPage EXCEPT !.isPruneVolumesOpen = TRUE]
  /\ UNCHANGED <<resourcesCalls, daemon>>

TypePrune ==
  /\ resourcesPage.isPruneVolumesOpen
  /\ resourcesPage' = [resourcesPage EXCEPT !.typed = TRUE]
  /\ UNCHANGED <<resourcesCalls, daemon>>

\* What must be typed before the button works.
PruneConfirmed(page) == page.isPruneVolumesOpen /\ page.typed

\* The dialog stays mounted and keeps what was typed.
CancelPrune ==
  /\ resourcesPage.isPruneVolumesOpen
  /\ resourcesPage' = [resourcesPage EXCEPT !.isPruneVolumesOpen = FALSE]
  /\ UNCHANGED <<resourcesCalls, daemon>>

HandlePruneVolumes(unused) ==
  /\ PruneConfirmed(resourcesPage)
  /\ AskResources({[kind |-> "prune", tab |-> "volumes", items |-> unused]})
  /\ resourcesPage' = [resourcesPage EXCEPT !.isPruneVolumesOpen = FALSE, !.typed = FALSE]
  /\ UNCHANGED daemon

\* The answer about a volume closes the dialog, which may be about another one by then.
ResourceDeleted(c) ==
  /\ c.kind = "delete"
  /\ LET items == daemon[c.tab] \ c.items
         page == IF c.tab = "volumes" THEN [resourcesPage EXCEPT !.volumeToDelete = {}]
                 ELSE resourcesPage
     IN  Acknowledge(c, page, items) \/ Lose(c, resourcesPage, items)

ResourcePruned(c) ==
  /\ c.kind = "prune"
  /\ LET items == daemon[c.tab] \ c.items
         page == IF c.tab = "volumes" THEN [resourcesPage EXCEPT !.isPruneVolumesOpen = FALSE]
                 ELSE resourcesPage
     IN  Acknowledge(c, page, items) \/ Lose(c, resourcesPage, items)

-----------------------------------------------------------------------------
ResourcesNext ==
  \/ \E tab \in Kinds : SelectResourcesTab(tab)
  \/ OpenPull \/ ClosePull
  \/ \E image \in Images : HandlePullImage(image) \/ HandleDeleteImage(image)
  \/ \E unused \in SUBSET Images : HandlePruneImages(unused)
  \/ \E network \in Networks : HandleDeleteNetwork(network)
  \/ \E volume \in Volumes : OpenDeleteVolume(volume)
  \/ CloseDeleteVolume \/ HandleDeleteVolume
  \/ OpenPrune \/ TypePrune \/ CancelPrune
  \/ \E unused \in SUBSET Volumes : HandlePruneVolumes(unused)
  \/ \E c \in resourcesCalls : LoadAnswer(c) \/ PullAnswer(c) \/ ResourceDeleted(c) \/ ResourcePruned(c)

-----------------------------------------------------------------------------
(* Correctness *)

\* After a change that was acknowledged the tab shows what there is, or is loading it: the
\* page has no timer, and nothing else would.  Two loads of one tab at a time may be answered
\* in either order.
ResourcesUpToDate ==
  ~resourcesPage.doubtful =>
    \/ resourcesPage.shown[resourcesPage.tab] = daemon[resourcesPage.tab]
    \/ Loading(resourcesPage.tab, resourcesCalls)
=============================================================================
